---- MODULE Spec2Model ----
(***************************************************************************)
(* MeasureColocalization (cellprofiler/modules/measurecolocalization.py):  *)
(* the whole-image unit run_image_pair_images, the per-object unit         *)
(* run_image_pair_objects and the Costes threshold search they both hold.  *)
(*                                                                         *)
(* Numbers.  An intensity is a grey level g, standing for the float g/255. *)
(* Arithmetic is exact: a quotient is kept as a fraction, a square root as *)
(* the signed root of a fraction, and the IEEE special values that numpy   *)
(* yields for x/0 and 0/0 (inf, nan) are values of their own.  numpy       *)
(* float64 division by zero warns and returns inf or nan, it never raises. *)
(***************************************************************************)
EXTENDS Integers, Sequences, FiniteSets, TLC

(* ------------------------------- bounds -------------------------------- *)
\* pixels of an image
NPix == 3
\* the largest numbers of image groups and of object groups
MaxImages == 3
MaxObjects == 2
\* rows and columns of an image whose shape is not that of the other image
MaxDim == 3

(* -------------------------- program constants -------------------------- *)
\* The search level i is stepped by 0.003921568627 (lines 580, 588, 1132,
\* 1140).  In grey levels (times 255) the step is 0.999999999885, that is
\* StepWhole - StepDeficit * 10^-12.
StepWhole == 1
StepDeficit == 115
\* i = 1 at the start of the search (lines 579, 1131): grey level 255
Levels == 255

(* ------------------------------- values -------------------------------- *)
NaN == [t |-> "nan", n |-> 0, d |-> 0]
PosInf == [t |-> "inf", n |-> 0, d |-> 0]
NegInf == [t |-> "ninf", n |-> 0, d |-> 0]

Abs(x) == IF x < 0 THEN -x ELSE x
Sgn(x) == IF x < 0 THEN -1 ELSE IF x = 0 THEN 0 ELSE 1

RECURSIVE GCD(_, _)
GCD(x, y) == IF y = 0 THEN x ELSE GCD(y, x % y)

\* the fraction x/y, y > 0, in lowest terms
Frac(x, y) ==
    LET g == GCD(Abs(x), y)
    IN  [t |-> "num", n |-> x \div g, d |-> y \div g]

\* float64 x / y for reals x, y given as integers: 0/0 is nan, x/0 is +-inf
Div(x, y) ==
    IF y = 0
    THEN IF x = 0 THEN NaN ELSE IF x > 0 THEN PosInf ELSE NegInf
    ELSE IF y > 0 THEN Frac(x, y) ELSE Frac(-x, -y)

RECURSIVE ISqrtIn(_, _, _)
ISqrtIn(q, lo, hi) ==
    IF lo = hi THEN lo
    ELSE LET mid == (lo + hi + 1) \div 2
         IN  IF mid * mid <= q THEN ISqrtIn(q, mid, hi)
             ELSE ISqrtIn(q, lo, mid - 1)
\* floor of the square root of q >= 0
ISqrt(q) == ISqrtIn(q, 0, IF q < 46340 THEN q ELSE 46340)

\* x / sqrt(y) for integers x and y >= 0: the fraction x / sqrt(y) where y
\* is a square, else kept as sign(x) * sqrt(x^2 / y) in lowest terms
DivSqrt(x, y) ==
    IF y = 0
    THEN IF x = 0 THEN NaN ELSE IF x > 0 THEN PosInf ELSE NegInf
    ELSE IF x = 0 \/ ISqrt(y) * ISqrt(y) = y THEN Frac(x, IF x = 0 THEN 1 ELSE ISqrt(y))
    ELSE LET g == GCD(x * x, y)
         IN  [t |-> "root", n |-> Sgn(x) * ((x * x) \div g), d |-> y \div g]

Zero == Frac(0, 1)
IsNaN(v) == v.t = "nan"
IsZero(v) == v.t \in {"num", "root"} /\ v.n = 0
IsFinite(v) == v.t \in {"num", "root"}

(* ------------------------------- arrays -------------------------------- *)
RECURSIVE SumTo(_, _)
SumTo(s, n) == IF n = 0 THEN 0 ELSE s[n] + SumTo(s, n - 1)
\* numpy sum of a 1-D array (0 for the empty array)
Sum(s) == SumTo(s, Len(s))

Times(s, u) == [j \in 1..Len(s) |-> s[j] * u[j]]

RECURSIVE Compress(_, _)
\* numpy boolean indexing a[m]: the entries of a where m is true, in order
Compress(a, m) ==
    IF Len(a) = 0 THEN << >>
    ELSE (IF Head(m) THEN <<Head(a)>> ELSE << >>) \o Compress(Tail(a), Tail(m))

\* numpy.any
AnyTrue(m) == \E j \in 1..Len(m) : m[j]

\* n*Sxy - Sx*Sy: n(n-1) times the sample covariance of x and y
CoMoment(x, y) == Len(x) * Sum(Times(x, y)) - Sum(x) * Sum(y)

(* ----------------------- Costes threshold search ----------------------- *)
\* The level i of the search, in grey levels: w + f * 10^-12
Level(w, f) == [w |-> w, f |-> f]
LevelGt(i, j) == i.w > j.w \/ (i.w = j.w /\ i.f > j.f)
\* the literal 0.003921568627
Step == Level(StepWhole, -StepDeficit)
\* i = i - 0.003921568627
StepDown(i) == Level(i.w - Step.w, i.f - Step.f)
\* a loop test i > 0 in the place of i > 0.003921568627
LoopTestAboveZero(i) == LevelGt(i, Level(0, 0))
\* the loop test i > 0.003921568627
LoopTest(i) == LevelGt(i, Step)
\* fi < Thr_fi_c, fi > Thr_fi_c, fi >= Thr_fi_c for a pixel of grey level g
GreyLt(g, i) == LevelGt(i, Level(g, 0))
GreyGt(g, i) == LevelGt(Level(g, 0), i)
GreyGe(g, i) == ~GreyLt(g, i)

\* a and b before line 576 assigns them
NoRegression == [a |-> "unset", b |-> "unset", n |-> 0, Sx |-> 0, Sy |-> 0,
                 D |-> 0, E |-> 0, r |-> 0]

\* The orthogonal regression si = a * fi + b over the pixels that are not
\* zero in both channels.  With m = n(n-1): xvar = VX/m, yvar = VY/m,
\* zvar = VZ/m, denom = 2 * covar = E/m, num = (D + sqrt(D^2 + E^2))/m.
\* numpy.var(ddof=1) of fewer than two samples is nan.  a = num / denom is
\* nan for 0/0 and +inf for num > 0 = denom; b = ymean - a * xmean is then
\* nan (inf * 0 or nan) or -inf.  r is the floor of sqrt(D^2 + E^2), kept for
\* the comparisons against Thr_si_c.
CostesRegression(fi, si) ==
    LET nonZero == [j \in 1..Len(fi) |-> fi[j] > 0 \/ si[j] > 0]
        x == Compress(fi, nonZero)
        y == Compress(si, nonZero)
        z == [j \in 1..Len(x) |-> x[j] + y[j]]
        n == Len(x)
        VX == CoMoment(x, x)
        VY == CoMoment(y, y)
        VZ == CoMoment(z, z)
        E == VZ - (VX + VY)
        D == VY - VX
        none == [NoRegression EXCEPT !.a = "nan", !.b = "nan", !.n = n]
    IN  IF n < 2 THEN none
        ELSE IF E = 0
        THEN IF D > 0
             THEN [none EXCEPT !.a = "inf",
                               !.b = IF Sum(x) > 0 THEN "ninf" ELSE "nan"]
             ELSE none
        ELSE [a |-> "fin", b |-> "fin", n |-> n, Sx |-> Sum(x), Sy |-> Sum(y),
              D |-> D, E |-> E, r |-> ISqrt(D * D + E * E)]

\* sign of P/M - sqrt(Q) for P > 0, M > 0, Q > 0 and r = floor(sqrt(Q))
CmpRatioSqrt(P, M, Q, r) ==
    LET q == P \div M
        t == P % M
    IN  IF r * r = Q THEN Sgn(P - r * M)
        ELSE IF q < r THEN -1
        ELSE IF q > r THEN 1
        ELSE Sgn(2 * r * t * M + t * t - (Q - r * r) * M * M)

\* sign of P - sqrt(Q) * M for Q > 0 and r = floor(sqrt(Q))
SignPSM(P, M, Q, r) ==
    IF M = 0 THEN Sgn(P)
    ELSE IF M > 0 THEN (IF P <= 0 THEN -1 ELSE CmpRatioSqrt(P, M, Q, r))
    ELSE (IF P >= 0 THEN 1 ELSE -CmpRatioSqrt(-P, -M, Q, r))

\* Thr_fi_c, Thr_si_c and costReg before the loop body assigns them
NoLevel == Level(-1, 0)
NoThrSi == [t |-> "unset", reg |-> NoRegression, i |-> NoLevel]
NoValue == [t |-> "unset", n |-> 0, d |-> 0]

\* Thr_si_c = (a * i) + b: nan unless a and b are finite (inf + -inf, nan)
ThrSi(reg, i) == [t |-> IF reg.a = "fin" /\ reg.b = "fin" THEN "fin" ELSE "nan",
                  reg |-> reg, i |-> i]

\* sign of g - Thr_si_c for a finite Thr_si_c = a * i + b, a = (D + S)/E,
\* S = sqrt(D^2 + E^2), b = (Sy - a * Sx)/n:
\*   n * (g - Thr_si_c) = L - a * (M + n * f * 10^-12),
\*   L = n * g - Sy, M = n * w - Sx, E * (L - a * M) = P - S * M.
\* The sign is that of L - a * M; where that is zero the excess f of the
\* level over its whole grey level decides.
CmpThrSi(g, T) ==
    LET reg == T.reg
        L == reg.n * g - reg.Sy
        M == reg.n * T.i.w - reg.Sx
        P == reg.E * L - reg.D * M
        Q == reg.D * reg.D + reg.E * reg.E
        main == Sgn(reg.E) * SignPSM(P, M, Q, reg.r)
    IN  IF main # 0 THEN main ELSE -Sgn(reg.E) * Sgn(T.i.f)

\* si < Thr_si_c, si > Thr_si_c, si >= Thr_si_c; false against nan
SiLt(g, T) == T.t = "fin" /\ CmpThrSi(g, T) < 0
SiGt(g, T) == T.t = "fin" /\ CmpThrSi(g, T) > 0
SiGe(g, T) == T.t = "fin" /\ CmpThrSi(g, T) >= 0

ValueError == [t |-> "ValueError", n |-> 0, d |-> 0]

\* scipy.stats.pearsonr(x, y)[0]: ValueError for fewer than two samples, nan
\* (with a warning) when x or y is constant, else the correlation
PearsonR(x, y) ==
    IF Len(x) < 2 THEN ValueError
    ELSE IF CoMoment(x, x) = 0 \/ CoMoment(y, y) = 0 THEN NaN
    ELSE DivSqrt(CoMoment(x, y), CoMoment(x, x) * CoMoment(y, y))

\* costReg[0] <= 0 (false for nan)
LeZero(r) == r.t \in {"num", "root"} /\ r.n <= 0

\* One pass of the loop body at level i: the thresholds it assigns, the
\* correlation of the below-threshold set, and whether it breaks.
CostesBody(fi, si, reg, i) ==
    LET T == ThrSi(reg, i)
        combt == [j \in 1..Len(fi) |-> GreyLt(fi[j], i) \/ SiLt(si[j], T)]
        costReg == PearsonR(Compress(fi, combt), Compress(si, combt))
    IN  [Thr_fi_c |-> i, Thr_si_c |-> T, costReg |-> costReg,
         brk |-> costReg = ValueError \/ LeZero(costReg)]

\* whole image: C1 and C2 for accepted thresholds (Tf, Ts)
ImagesCostesManders(fi, si, Tf, Ts) ==
    LET combined_thresh_c ==
            [j \in 1..Len(fi) |-> GreyGt(fi[j], Tf) /\ SiGt(si[j], Ts)]
        fi_thresh_c == Compress(fi, combined_thresh_c)
        si_thresh_c == Compress(si, combined_thresh_c)
        tot_fi_thr_c == Sum(Compress(fi, [j \in 1..Len(fi) |-> GreyGt(fi[j], Tf)]))
        tot_si_thr_c == Sum(Compress(si, [j \in 1..Len(si) |-> SiGt(si[j], Ts)]))
    IN  [C1 |-> Div(Sum(fi_thresh_c), tot_fi_thr_c),
         C2 |-> Div(Sum(si_thresh_c), tot_si_thr_c)]

\* the grey levels of the modelled images (of 0..255) and the object counts
Grey == 0..2
ObjectCounts == 0..2
Families == {"corr_and_slope", "manders", "rwc", "overlap", "costes"}
AllFlags == [Families -> BOOLEAN]
\* values of the threshold setting, which ranges over [0, 99] (lines 129-135)
ThrValues == {0, 15, 50, 99}

\* pixel pairs in ascending order: the sums and the membership tests of the
\* units do not read the position of a pixel
Ascending(f, s) ==
    \A j \in 1..(Len(f) - 1) :
        f[j] < f[j + 1] \/ (f[j] = f[j + 1] /\ s[j] <= s[j + 1])

(* ------------------------- whole-image families ------------------------ *)
\* numpy.max of a non-empty array
Max(s) == CHOOSE m \in {s[j] : j \in 1..Len(s)} : \A j \in 1..Len(s) : s[j] <= m

\* a whole-image threshold test that is not strict
AboveThrNonStrict(v, p, mx) == 100 * v >= p * mx
\* v > thr.value * mx / 100 and v >= (thr.value / 100) * mx
AboveThr(v, p, mx) == 100 * v > p * mx
AtLeastThrStrict(v, p, mx) == 100 * v > p * mx
AtLeastThr(v, p, mx) == 100 * v >= p * mx

\* numpy.corrcoef((fi, si))[1, 0]: nan for one sample or a constant channel
CorrCoef(fi, si) == DivSqrt(CoMoment(fi, si), CoMoment(fi, fi) * CoMoment(si, si))

\* lstsq([fi, 1], si)[0][0]: the least-squares slope, and for a constant
\* fi = c (rank-deficient) the minimum-norm solution c * mean(si) / (c^2 + 1),
\* with c = g / 255
LstsqSlope(fi, si) ==
    IF CoMoment(fi, fi) # 0
    THEN Div(CoMoment(fi, si), CoMoment(fi, fi))
    ELSE Div(fi[1] * Sum(si), Len(fi) * (fi[1] * fi[1] + Levels * Levels))

\* position (from 1) of sample j in numpy.lexsort([key2, key1]): by key1,
\* then key2, then index (the sort is stable)
SortPos(key1, key2, j) ==
    1 + Cardinality({m \in 1..Len(key1) :
            \/ key1[m] < key1[j]
            \/ key1[m] = key1[j] /\ key2[m] < key2[j]
            \/ key1[m] = key1[j] /\ key2[m] = key2[j] /\ m < j})

\* a rank that is the position in the sorted order: ties get different ranks
RankImOrdinal(v, key2) == [j \in 1..Len(v) |-> SortPos(v, key2, j) - 1]

\* Rank_im1, Rank_im2: Rank1 = lexsort, Rank1_U marks a change of value
\* along the sorted order, Rank1_S = cumsum(Rank1_U), Rank_im1[Rank1] = Rank1_S
RankIm(v, key2) ==
    LET n == Len(v)
        Rank1 == [t \in 1..n |-> CHOOSE j \in 1..n : SortPos(v, key2, j) = t]
        Rank1_U == [t \in 1..n |-> t > 1 /\ v[Rank1[t - 1]] # v[Rank1[t]]]
        Rank1_S == [t \in 1..n |-> Cardinality({u \in 1..t : Rank1_U[u]})]
    IN  [j \in 1..n |-> Rank1_S[SortPos(v, key2, j)]]

\* weights whose R is the largest rank itself
RankWeightsLargestRank(f, s, key2) ==
    LET Rank_im1 == RankIm(f, key2)
        Rank_im2 == RankIm(s, key2)
        R == Max(Rank_im1 \o Rank_im2)
    IN  [R |-> R, num |-> [j \in 1..Len(f) |-> R - Abs(Rank_im1[j] - Rank_im2[j])]]

\* (R - Di) and R of the weights (R - Di) / R
RankWeights(f, s, key2) ==
    LET Rank_im1 == RankIm(f, key2)
        Rank_im2 == RankIm(s, key2)
        R == Max(Rank_im1 \o Rank_im2) + 1
    IN  [R |-> R, num |-> [j \in 1..Len(f) |-> R - Abs(Rank_im1[j] - Rank_im2[j])]]

\* lines 467-475
ImagesThresholds(fi, si, p) ==
    LET fi_above == [j \in 1..Len(fi) |-> AboveThr(fi[j], p, Max(fi))]
        si_above == [j \in 1..Len(si) |-> AboveThr(si[j], p, Max(si))]
        combined_thresh == [j \in 1..Len(fi) |-> fi_above[j] /\ si_above[j]]
    IN  [combined_thresh |-> combined_thresh,
         fi_thresh |-> Compress(fi, combined_thresh),
         si_thresh |-> Compress(si, combined_thresh),
         tot_fi_thr |-> Sum(Compress(fi, fi_above)),
         tot_si_thr |-> Sum(Compress(si, si_above))]

\* lines 477-482
ImagesManders(t) ==
    [M1 |-> Div(Sum(t.fi_thresh), t.tot_fi_thr),
     M2 |-> Div(Sum(t.si_thresh), t.tot_si_thr)]

\* lines 501-521
ImagesRWC(fi, si, t) ==
    LET w == RankWeights(fi, si, [j \in 1..Len(fi) |-> 0])
        weight_thresh == Compress(w.num, t.combined_thresh)
    IN  [RWC1 |-> Div(Sum(Times(t.fi_thresh, weight_thresh)), w.R * t.tot_fi_thr),
         RWC2 |-> Div(Sum(Times(t.si_thresh, weight_thresh)), w.R * t.tot_si_thr)]

\* an overlap coefficient whose denominator lacks the square root
ImagesOverlapNoSqrt(t) ==
    LET fs == Sum(Times(t.fi_thresh, t.si_thresh))
        ff == Sum(Times(t.fi_thresh, t.fi_thresh))
        ss == Sum(Times(t.si_thresh, t.si_thresh))
    IN  [overlap |-> Div(fs, ff * ss), K1 |-> Div(fs, ff), K2 |-> Div(fs, ss)]

\* lines 539-546
ImagesOverlap(t) ==
    LET fs == Sum(Times(t.fi_thresh, t.si_thresh))
        ff == Sum(Times(t.fi_thresh, t.fi_thresh))
        ss == Sum(Times(t.si_thresh, t.si_thresh))
    IN  [overlap |-> DivSqrt(fs, ff * ss), K1 |-> Div(fs, ff), K2 |-> Div(fs, ss)]

(* ---------------------- names, rows and measurements ------------------- *)
F_CORRELATION_FORMAT == "Correlation_Correlation"
F_SLOPE_FORMAT == "Correlation_Slope"
F_OVERLAP_FORMAT == "Correlation_Overlap"
F_K_FORMAT == "Correlation_K"
F_MANDERS_FORMAT == "Correlation_Manders"
F_RWC_FORMAT == "Correlation_RWC"
F_COSTES_FORMAT == "Correlation_Costes"
\* F_x_FORMAT % (first, second)
Feature(format, first, second) == format \o "_" \o first \o "_" \o second

first_image_name == "A"
second_image_name == "B"
object_name == "Nuclei"

\* "%.3f" % v, kept as the formatting of v
Fmt3(v) == [fmt |-> "%.3f", of |-> v]
\* "%.3f" % numpy.mean(v) and the like, kept as the statistic of the vector
FmtStat(stat, v) == [fmt |-> "%.3f", stat |-> stat, of |-> v]
Row(first, second, objects, measurement, value) ==
    [first |-> first, second |-> second, objects |-> objects,
     measurement |-> measurement, value |-> value]

\* the rows lines 456-555 append to result
ImagesRows(fl, v) ==
    (IF fl["corr_and_slope"]
     THEN <<Row(first_image_name, second_image_name, "-", "Correlation", Fmt3(v.corr)),
            Row(first_image_name, second_image_name, "-", "Slope", Fmt3(v.slope))>>
     ELSE << >>)
    \o (IF fl["manders"]
        THEN <<Row(first_image_name, second_image_name, "-", "Manders Coefficient", Fmt3(v.M1)),
               Row(second_image_name, first_image_name, "-", "Manders Coefficient", Fmt3(v.M2))>>
        ELSE << >>)
    \o (IF fl["rwc"]
        THEN <<Row(first_image_name, second_image_name, "-", "RWC Coefficient", Fmt3(v.RWC1)),
               Row(second_image_name, first_image_name, "-", "RWC Coefficient", Fmt3(v.RWC2))>>
        ELSE << >>)
    \o (IF fl["overlap"]
        THEN <<Row(first_image_name, second_image_name, "-", "Overlap Coefficient", Fmt3(v.overlap))>>
        ELSE << >>)

\* the Costes rows under the ordering (first, second) only
ImagesCostesRowsOneOrdering(v) ==
    <<Row(first_image_name, second_image_name, "-", "Manders Coefficient (Costes)", Fmt3(v.C1))>>

\* the rows lines 605-620 append to result
ImagesCostesRows(v) ==
    <<Row(first_image_name, second_image_name, "-", "Manders Coefficient (Costes)", Fmt3(v.C1)),
      Row(second_image_name, first_image_name, "-", "Manders Coefficient (Costes)", Fmt3(v.C2))>>

\* lines 638-682: the image measurements added, by flag
ImagesMeasurements(fl, v) ==
    LET A == first_image_name
        B == second_image_name
        corr == IF fl["corr_and_slope"]
                THEN {<<Feature(F_CORRELATION_FORMAT, A, B), v.corr>>,
                      <<Feature(F_SLOPE_FORMAT, A, B), v.slope>>} ELSE {}
        over == IF fl["overlap"]
                THEN {<<Feature(F_OVERLAP_FORMAT, A, B), v.overlap>>,
                      <<Feature(F_K_FORMAT, A, B), v.K1>>,
                      <<Feature(F_K_FORMAT, B, A), v.K2>>} ELSE {}
        mand == IF fl["manders"]
                THEN {<<Feature(F_MANDERS_FORMAT, A, B), v.M1>>,
                      <<Feature(F_MANDERS_FORMAT, B, A), v.M2>>} ELSE {}
        rwc == IF fl["rwc"]
               THEN {<<Feature(F_RWC_FORMAT, A, B), v.RWC1>>,
                     <<Feature(F_RWC_FORMAT, B, A), v.RWC2>>} ELSE {}
        cost == IF fl["costes"]
                THEN {<<Feature(F_COSTES_FORMAT, A, B), v.C1>>,
                      <<Feature(F_COSTES_FORMAT, B, A), v.C2>>} ELSE {}
        added == corr \cup over \cup mand \cup rwc \cup cost
    IN  [k \in {e[1] : e \in added} |-> (CHOOSE e \in added : e[1] = k)[2]]


(* --------------------------- whole-image unit -------------------------- *)
\* A pixel is a grey level or one of the float values nan, +inf, -inf, kept
\* as codes outside the grey levels: +inf above and -inf below every level.
PixelInf == Levels + 1
PixelNegInf == -(Levels + 1)
PixelNaN == Levels + 2
NonFinite == {PixelNaN, PixelInf, PixelNegInf}
\* numpy.isnan of a pixel
IsNaNPixel(g) == g = PixelNaN

\* a validity mask that leaves the mask of the second image out
PairMaskOfFirst(fpd, spd, fm, sm) ==
    [j \in 1..Len(fpd) |-> fm[j] /\ ~IsNaNPixel(fpd[j]) /\ ~IsNaNPixel(spd[j])]

\* lines 430-435 and 743-748: the validity mask of the image pair
PairMask(fpd, spd, fm, sm) ==
    [j \in 1..Len(fpd) |->
        fm[j] /\ sm[j] /\ ~IsNaNPixel(fpd[j]) /\ ~IsNaNPixel(spd[j])]

\* the local variables corr, slope, ... before anything assigns them
NoValues ==
    [corr |-> NoValue, slope |-> NoValue, C1 |-> NoValue, C2 |-> NoValue,
     M1 |-> NoValue, M2 |-> NoValue, RWC1 |-> NoValue, RWC2 |-> NoValue,
     overlap |-> NoValue, K1 |-> NoValue, K2 |-> NoValue]

\* an else branch that assigns 0 to the threshold families
ImagesNoDataZero ==
    [corr |-> NaN, slope |-> NaN, C1 |-> Zero, C2 |-> Zero, M1 |-> Zero,
     M2 |-> Zero, RWC1 |-> Zero, RWC2 |-> Zero, overlap |-> Zero, K1 |-> Zero,
     K2 |-> Zero]

\* lines 622-633: the values of the else branch, no valid pixel
ImagesNoData ==
    [corr |-> NaN, slope |-> NaN, C1 |-> NaN, C2 |-> NaN, M1 |-> NaN,
     M2 |-> NaN, RWC1 |-> NaN, RWC2 |-> NaN, overlap |-> NaN, K1 |-> NaN,
     K2 |-> NaN]

\* the families of the whole-image unit if the Manders family left other
\* thresholds behind for the families after it
ImagesFamiliesSharedThresholds(f, s, p, fl) ==
    LET t == ImagesThresholds(f, s, p)
        left == IF fl["manders"] THEN ImagesThresholds(f, s, 99) ELSE t
        m == ImagesManders(t)
        r == ImagesRWC(f, s, left)
        o == ImagesOverlap(left)
        on(family, x) == IF fl[family] THEN x ELSE NoValue
    IN  [NoValues EXCEPT
            !.corr = on("corr_and_slope", CorrCoef(f, s)),
            !.slope = on("corr_and_slope", LstsqSlope(f, s)),
            !.M1 = on("manders", m.M1), !.M2 = on("manders", m.M2),
            !.RWC1 = on("rwc", r.RWC1), !.RWC2 = on("rwc", r.RWC2),
            !.overlap = on("overlap", o.overlap),
            !.K1 = on("overlap", o.K1), !.K2 = on("overlap", o.K2)]

\* lines 441-555: the variables the enabled families assign on the sample
ImagesFamilies(f, s, p, fl) ==
    LET t == ImagesThresholds(f, s, p)
        m == ImagesManders(t)
        r == ImagesRWC(f, s, t)
        o == ImagesOverlap(t)
        on(family, x) == IF fl[family] THEN x ELSE NoValue
    IN  [NoValues EXCEPT
            !.corr = on("corr_and_slope", CorrCoef(f, s)),
            !.slope = on("corr_and_slope", LstsqSlope(f, s)),
            !.M1 = on("manders", m.M1), !.M2 = on("manders", m.M2),
            !.RWC1 = on("rwc", r.RWC1), !.RWC2 = on("rwc", r.RWC2),
            !.overlap = on("overlap", o.overlap),
            !.K1 = on("overlap", o.K1), !.K2 = on("overlap", o.K2)]

(* ----------------------------- object unit ----------------------------- *)
\* line 723: the pixels of the object sample
ObjectMask(lab, fm, sm) == [j \in 1..Len(lab) |-> lab[j] > 0 /\ fm[j] /\ sm[j]]

\* the entry for label l of scipy.ndimage.sum(vals, labs, lrange) and of
\* scipy.ndimage.maximum(vals, labs, lrange); 0 for a label without pixels
LabelSum(vals, labs, l) ==
    Sum(Compress(vals, [j \in 1..Len(labs) |-> labs[j] = l]))
LabelMaximum(vals, labs, l) ==
    LET own == Compress(vals, [j \in 1..Len(labs) |-> labs[j] = l])
    IN  IF Len(own) = 0 THEN 0 ELSE Max(own)

\* numpy.zeros((n,)) and the same filled with numpy.NaN
Zeros(n) == [l \in 1..n |-> Zero]
NaNs(n) == [l \in 1..n |-> NaN]

\* lines 780-807: sum(x * y / (std1 * std2)) per label, nan where a standard
\* deviation is zero, and nan set explicitly for a label without pixels
ObjectsCorr(first_pixels, second_pixels, labs, n) ==
    [l \in 1..n |->
        LET own == [j \in 1..Len(labs) |-> labs[j] = l]
            x == Compress(first_pixels, own)
            y == Compress(second_pixels, own)
        IN  IF Len(x) = 0 THEN NaN
            ELSE DivSqrt(CoMoment(x, y), CoMoment(x, x) * CoMoment(y, y))]

\* lines 839-862
ObjectsThresholds(first_pixels, second_pixels, labs, n, p) ==
    LET fi_at == [j \in 1..Len(labs) |->
                    AtLeastThr(first_pixels[j], p,
                               LabelMaximum(first_pixels, labs, labs[j]))]
        si_at == [j \in 1..Len(labs) |->
                    AtLeastThr(second_pixels[j], p,
                               LabelMaximum(second_pixels, labs, labs[j]))]
        combined_thresh == [j \in 1..Len(labs) |-> fi_at[j] /\ si_at[j]]
    IN  [combined_thresh |-> combined_thresh,
         fi_thresh |-> Compress(first_pixels, combined_thresh),
         si_thresh |-> Compress(second_pixels, combined_thresh),
         labels_thresh |-> Compress(labs, combined_thresh),
         tot_fi_thr |-> [l \in 1..n |->
             LabelSum(Compress(first_pixels, fi_at), Compress(labs, fi_at), l)],
         tot_si_thr |-> [l \in 1..n |->
             LabelSum(Compress(second_pixels, si_at), Compress(labs, si_at), l)]]

\* lines 864-875
ObjectsManders(t, n) ==
    IF AnyTrue(t.combined_thresh)
    THEN [M1 |-> [l \in 1..n |->
                    Div(LabelSum(t.fi_thresh, t.labels_thresh, l), t.tot_fi_thr[l])],
          M2 |-> [l \in 1..n |->
                    Div(LabelSum(t.si_thresh, t.labels_thresh, l), t.tot_si_thr[l])]]
    ELSE [M1 |-> Zeros(n), M2 |-> Zeros(n)]

\* lines 937-971
ObjectsRWC(first_pixels, second_pixels, labs, t, n) ==
    LET w == RankWeights(first_pixels, second_pixels, labs)
        weight_thresh == Compress(w.num, t.combined_thresh)
    IN  IF AnyTrue(t.combined_thresh)
        THEN [RWC1 |-> [l \in 1..n |->
                  Div(LabelSum(Times(t.fi_thresh, weight_thresh), t.labels_thresh, l),
                      w.R * t.tot_fi_thr[l])],
              RWC2 |-> [l \in 1..n |->
                  Div(LabelSum(Times(t.si_thresh, weight_thresh), t.labels_thresh, l),
                      w.R * t.tot_si_thr[l])]]
        ELSE [RWC1 |-> Zeros(n), RWC2 |-> Zeros(n)]

\* lines 1034-1079
ObjectsOverlap(t, n) ==
    LET fpsq(l) == LabelSum(Times(t.fi_thresh, t.fi_thresh), t.labels_thresh, l)
        spsq(l) == LabelSum(Times(t.si_thresh, t.si_thresh), t.labels_thresh, l)
        prod(l) == LabelSum(Times(t.fi_thresh, t.si_thresh), t.labels_thresh, l)
    IN  IF AnyTrue(t.combined_thresh)
        THEN [overlap |-> [l \in 1..n |-> DivSqrt(prod(l), fpsq(l) * spsq(l))],
              K1 |-> [l \in 1..n |-> Div(prod(l), fpsq(l))],
              K2 |-> [l \in 1..n |-> Div(prod(l), spsq(l))]]
        ELSE [overlap |-> Zeros(n), K1 |-> Zeros(n), K2 |-> Zeros(n)]

\* C1 and C2 with the thresholds applied to the first object only: every pixel
\* of the other objects counts as above them
ObjectsCostesMandersFirstOnly(first_pixels, second_pixels, labs, n, Tf, Ts) ==
    LET fi_above_thr == [j \in 1..Len(labs) |-> labs[j] # 1 \/ GreyGt(first_pixels[j], Tf)]
        si_above_thr == [j \in 1..Len(labs) |-> labs[j] # 1 \/ SiGt(second_pixels[j], Ts)]
        combined_thresh_c == [j \in 1..Len(labs) |-> fi_above_thr[j] /\ si_above_thr[j]]
        fi_at == [j \in 1..Len(labs) |-> labs[j] # 1 \/ GreyGe(first_pixels[j], Tf)]
        si_at == [j \in 1..Len(labs) |-> labs[j] # 1 \/ SiGe(second_pixels[j], Ts)]
    IN  IF AnyTrue(combined_thresh_c)
        THEN [C1 |-> [l \in 1..n |->
                  Div(LabelSum(Compress(first_pixels, combined_thresh_c),
                               Compress(labs, combined_thresh_c), l),
                      LabelSum(Compress(first_pixels, fi_at), Compress(labs, fi_at), l))],
              C2 |-> [l \in 1..n |->
                  Div(LabelSum(Compress(second_pixels, combined_thresh_c),
                               Compress(labs, combined_thresh_c), l),
                      LabelSum(Compress(second_pixels, si_at), Compress(labs, si_at), l))]]
        ELSE [C1 |-> Zeros(n), C2 |-> Zeros(n)]

\* lines 1144-1180: the thresholds of the whole image applied to each object
ObjectsCostesManders(first_pixels, second_pixels, labs, n, Tf, Ts) ==
    LET fi_above_thr == [j \in 1..Len(labs) |-> GreyGt(first_pixels[j], Tf)]
        si_above_thr == [j \in 1..Len(labs) |-> SiGt(second_pixels[j], Ts)]
        combined_thresh_c == [j \in 1..Len(labs) |-> fi_above_thr[j] /\ si_above_thr[j]]
        fi_thresh_c == Compress(first_pixels, combined_thresh_c)
        si_thresh_c == Compress(second_pixels, combined_thresh_c)
        labels_thresh_c == Compress(labs, combined_thresh_c)
        fi_at == [j \in 1..Len(labs) |-> GreyGe(first_pixels[j], Tf)]
        si_at == [j \in 1..Len(labs) |-> SiGe(second_pixels[j], Ts)]
        tot_fi_thr_c == [l \in 1..n |->
            IF AnyTrue(fi_above_thr)
            THEN LabelSum(Compress(first_pixels, fi_at), Compress(labs, fi_at), l)
            ELSE 0]
        tot_si_thr_c == [l \in 1..n |->
            IF AnyTrue(si_above_thr)
            THEN LabelSum(Compress(second_pixels, si_at), Compress(labs, si_at), l)
            ELSE 0]
    IN  IF AnyTrue(combined_thresh_c)
        THEN [C1 |-> [l \in 1..n |->
                  Div(LabelSum(fi_thresh_c, labels_thresh_c, l), tot_fi_thr_c[l])],
              C2 |-> [l \in 1..n |->
                  Div(LabelSum(si_thresh_c, labels_thresh_c, l), tot_si_thr_c[l])]]
        ELSE [C1 |-> Zeros(n), C2 |-> Zeros(n)]

\* every vector is of length 1 and holds numpy.NaN
ObjectsAllOfOne(v) ==
    [NoValues EXCEPT !.corr = <<NaN>>, !.overlap = <<NaN>>, !.K1 = <<NaN>>,
                     !.K2 = <<NaN>>, !.M1 = <<NaN>>, !.M2 = <<NaN>>,
                     !.RWC1 = <<NaN>>, !.RWC2 = <<NaN>>, !.C1 = <<NaN>>,
                     !.C2 = <<NaN>>]

\* lines 757-766 and 768-770: every vector is v
ObjectsAll(v) ==
    [NoValues EXCEPT !.corr = v, !.overlap = v, !.K1 = v, !.K2 = v, !.M1 = v,
                     !.M2 = v, !.RWC1 = v, !.RWC2 = v, !.C1 = v, !.C2 = v]

\* lines 774-1079: the vectors the enabled families assign on the sample
ObjectsFamilies(first_pixels, second_pixels, labs, n, p, fl) ==
    LET t == ObjectsThresholds(first_pixels, second_pixels, labs, n, p)
        m == ObjectsManders(t, n)
        r == ObjectsRWC(first_pixels, second_pixels, labs, t, n)
        o == ObjectsOverlap(t, n)
        on(family, x) == IF fl[family] THEN x ELSE NoValue
    IN  [NoValues EXCEPT
            !.corr = on("corr_and_slope",
                        ObjectsCorr(first_pixels, second_pixels, labs, n)),
            !.M1 = on("manders", m.M1), !.M2 = on("manders", m.M2),
            !.RWC1 = on("rwc", r.RWC1), !.RWC2 = on("rwc", r.RWC2),
            !.overlap = on("overlap", o.overlap),
            !.K1 = on("overlap", o.K1), !.K2 = on("overlap", o.K2)]

\* scipy.ndimage.mean and scipy.ndimage.maximum over lrange raise ValueError
\* on an empty labels array (lines 780 and 841); the Costes family alone
\* calls neither
RaisesOnEmpty(fl) ==
    fl["corr_and_slope"] \/ fl["manders"] \/ fl["rwc"] \/ fl["overlap"]

\* four rows: mean, median, min and max of a vector
StatRows(first, second, name, v) ==
    <<Row(first, second, object_name, "Mean " \o name, FmtStat("mean", v)),
      Row(first, second, object_name, "Median " \o name, FmtStat("median", v)),
      Row(first, second, object_name, "Min " \o name, FmtStat("min", v)),
      Row(first, second, object_name, "Max " \o name, FmtStat("max", v))>>

\* the rows lines 808-1110 append to result
ObjectsRows(fl, v) ==
    (IF fl["corr_and_slope"]
     THEN StatRows(first_image_name, second_image_name, "Correlation coeff", v.corr)
     ELSE << >>)
    \o (IF fl["manders"]
        THEN StatRows(first_image_name, second_image_name, "Manders coeff", v.M1)
             \o StatRows(second_image_name, first_image_name, "Manders coeff", v.M2)
        ELSE << >>)
    \o (IF fl["rwc"]
        THEN StatRows(first_image_name, second_image_name, "RWC coeff", v.RWC1)
             \o StatRows(second_image_name, first_image_name, "RWC coeff", v.RWC2)
        ELSE << >>)
    \o (IF fl["overlap"]
        THEN StatRows(first_image_name, second_image_name, "Overlap coeff", v.overlap)
        ELSE << >>)

\* the rows lines 1181-1240 append to result
ObjectsCostesRows(v) ==
    StatRows(first_image_name, second_image_name, "Manders coeff (Costes)", v.C1)
    \o StatRows(second_image_name, first_image_name, "Manders coeff (Costes)", v.C2)

\* lines 1242-1294: the object measurements added, by flag
ObjectsMeasurements(fl, v) ==
    LET A == first_image_name
        B == second_image_name
        corr == IF fl["corr_and_slope"]
                THEN {<<Feature(F_CORRELATION_FORMAT, A, B), v.corr>>} ELSE {}
        mand == IF fl["manders"]
                THEN {<<Feature(F_MANDERS_FORMAT, A, B), v.M1>>,
                      <<Feature(F_MANDERS_FORMAT, B, A), v.M2>>} ELSE {}
        rwc == IF fl["rwc"]
               THEN {<<Feature(F_RWC_FORMAT, A, B), v.RWC1>>,
                     <<Feature(F_RWC_FORMAT, B, A), v.RWC2>>} ELSE {}
        over == IF fl["overlap"]
                THEN {<<Feature(F_OVERLAP_FORMAT, A, B), v.overlap>>,
                      <<Feature(F_K_FORMAT, A, B), v.K1>>,
                      <<Feature(F_K_FORMAT, B, A), v.K2>>} ELSE {}
        cost == IF fl["costes"]
                THEN {<<Feature(F_COSTES_FORMAT, A, B), v.C1>>,
                      <<Feature(F_COSTES_FORMAT, B, A), v.C2>>} ELSE {}
        added == corr \cup mand \cup rwc \cup over \cup cost
    IN  [k \in {e[1] : e \in added} |-> (CHOOSE e \in added : e[1] = k)[2]]

\* lines 1296-1326: the rows returned when there is no object
NoObjectRows ==
    <<Row(first_image_name, second_image_name, object_name, "Mean correlation", "-"),
      Row(first_image_name, second_image_name, object_name, "Median correlation", "-"),
      Row(first_image_name, second_image_name, object_name, "Min correlation", "-"),
      Row(first_image_name, second_image_name, object_name, "Max correlation", "-")>>

(* -------------------------------- state -------------------------------- *)
VARIABLES
    first_pixel_data,   \* pixel data of the first image, raster order
    second_pixel_data,  \* pixel data of the second image
    first_mask,         \* mask of the first image
    second_mask,        \* mask of the second image
    first_shape,        \* shape of first_pixel_data and first_mask: <<rows, columns>>
    second_shape,       \* shape of second_pixel_data and second_mask
    segmented,          \* objects.segmented, 0 = background
    n_objects,          \* objects.count
    thr,                \* self.thr.value, a percentage
    flags,              \* do_corr_and_slope, do_manders, do_rwc, do_overlap, do_costes
    do_all,             \* the setting "Run all metrics?"
    image_groups,       \* the image groups, in order
    object_groups,      \* the object groups, in order
    images_or_objects,  \* the setting "Select where to measure correlation"
    calls,              \* run: the units called so far, in order
    store,              \* workspace.measurements: key -> number of times written
    call,               \* the method of the module called last, and its arguments
    returned,           \* what that method returned
    unit,               \* "images": run_image_pair_images, "objects": run_image_pair_objects
    pc,                 \* position in the unit
    fi, si,             \* the whole-image sample, once extracted
    values,             \* corr, slope, M1, ..., C2 as assigned so far
    reg,                \* a and b of the Costes regression
    i,                  \* the level of the Costes search
    Thr_fi_c, Thr_si_c, \* the Costes thresholds (thr_fi_c, thr_si_c in the object unit)
    costReg,            \* the correlation the last pass computed
    iterations,         \* passes of the loop body so far
    measurements,       \* what the unit recorded: measurement name -> value
    result,             \* the statistics rows, as appended so far and as returned
    raised              \* the exception that left the unit, or "none"

module_settings == <<do_all, image_groups, object_groups, images_or_objects>>
run_state == <<calls, store, call, returned>>
inputs == <<first_pixel_data, second_pixel_data, first_mask, second_mask,
            first_shape, second_shape, segmented, n_objects, thr, flags, unit,
            module_settings, run_state>>
costes == <<reg, i, Thr_fi_c, Thr_si_c, costReg, iterations>>
outputs == <<measurements, raised>>
vars == <<inputs, pc, fi, si, values, costes, result, outputs>>

\* the image masks: nothing masked, one pixel masked, disjoint, all masked
AllTrue == [j \in 1..NPix |-> TRUE]
AllButFirst == [j \in 1..NPix |-> j > 1]
FirstOnly == [j \in 1..NPix |-> j = 1]
NoneTrue == [j \in 1..NPix |-> FALSE]
MaskPairs == {<<AllTrue, AllTrue>>, <<AllTrue, AllButFirst>>,
              <<FirstOnly, AllButFirst>>, <<NoneTrue, AllTrue>>}
AllOn == [f \in Families |-> TRUE]
OnlyCostes == [f \in Families |-> f = "costes"]
AllButCostes == [f \in Families |-> f # "costes"]
Constant(s) == \A j \in 1..Len(s) : s[j] = s[1]
NoFlags == [f \in Families |-> FALSE]
AllGrey(s) == \A j \in 1..Len(s) : s[j] \in Grey

\* the state at the call of a unit, but for the inputs
\* the settings of a module whose families are picked one by one
FamiliesPicked == do_all = FALSE

M_IMAGES == "Across entire image"
M_OBJECTS == "Within objects"
M_IMAGES_AND_OBJECTS == "Both"
\* cellprofiler.measurement.IMAGE
IMAGE == "Image"
\* a call of a method of the module
Call(method, args) == [method |-> method, args |-> args]
\* a group of add_image and of add_object: its name setting, whether it has a
\* remover, and which group it is
ImageGroup(name, can_delete, id) ==
    [image_name |-> name, can_delete |-> can_delete, id |-> id]
ObjectGroup(name, can_delete, id) ==
    [object_name |-> name, can_delete |-> can_delete, id |-> id]
\* the module of one unit: the pair (A, B), the objects Nuclei, nothing run yet
PairOfUnit ==
    /\ image_groups = <<ImageGroup(first_image_name, FALSE, 1),
                        ImageGroup(second_image_name, FALSE, 2)>>
    /\ object_groups = <<ObjectGroup(object_name, FALSE, 1)>>
    /\ images_or_objects = IF unit = "images" THEN M_IMAGES ELSE M_OBJECTS
    /\ calls = << >>
    /\ store = << >>
    /\ call = Call("run", << >>)
    /\ returned = << >>

Unassigned ==
    /\ fi = << >>
    /\ si = << >>
    /\ values = NoValues
    /\ reg = NoRegression
    /\ i = NoLevel
    /\ Thr_fi_c = NoLevel
    /\ Thr_si_c = NoThrSi
    /\ costReg = NoValue
    /\ iterations = 0
    /\ measurements = << >>
    /\ result = << >>
    /\ raised = "none"
\* the units of the images that need no cropping start at the validity mask
InitLocals == pc = "run" /\ Unassigned

\* lines 415-555 and 622-633: the masks, the sample and the families but Costes
ImagesBegin ==
    /\ pc = "run"
    /\ unit = "images"
    /\ LET mask == PairMask(first_pixel_data, second_pixel_data, first_mask, second_mask)
       IN  IF AnyTrue(mask)
           THEN /\ fi' = Compress(first_pixel_data, mask)
                /\ si' = Compress(second_pixel_data, mask)
                /\ values' = ImagesFamilies(fi', si', thr, flags)
                /\ result' = ImagesRows(flags, values')
                /\ pc' = IF flags["costes"] THEN "costes" ELSE "add"
           ELSE /\ values' = ImagesNoData
                /\ pc' = "add"
                /\ UNCHANGED <<fi, si, result>>
    /\ UNCHANGED <<inputs, costes, outputs>>

\* lines 559-579 and 1112-1131: the regression, then i = 1
CostesStart ==
    /\ pc = "costes"
    /\ reg' = CostesRegression(fi, si)
    /\ i' = Level(Levels, 0)
    /\ pc' = "while"
    /\ UNCHANGED <<inputs, fi, si, values, Thr_fi_c, Thr_si_c, costReg,
                   iterations, result, outputs>>

\* lines 580-588 and 1132-1140: a pass that does not break
CostesContinue ==
    /\ pc = "while"
    /\ LoopTest(i)
    /\ LET body == CostesBody(fi, si, reg, i)
       IN  /\ ~body.brk
           /\ Thr_fi_c' = body.Thr_fi_c
           /\ Thr_si_c' = body.Thr_si_c
           /\ costReg' = body.costReg
    /\ i' = StepDown(i)
    /\ iterations' = iterations + 1
    /\ UNCHANGED <<inputs, pc, fi, si, values, reg, result, outputs>>

\* lines 580-590 and 1132-1142: a pass that breaks, on costReg[0] <= 0 or
\* on the ValueError of pearsonr
CostesBreak ==
    /\ pc = "while"
    /\ LoopTest(i)
    /\ LET body == CostesBody(fi, si, reg, i)
       IN  /\ body.brk
           /\ Thr_fi_c' = body.Thr_fi_c
           /\ Thr_si_c' = body.Thr_si_c
           /\ costReg' = IF body.costReg = ValueError THEN costReg ELSE body.costReg
    /\ iterations' = iterations + 1
    /\ pc' = "accepted"
    /\ UNCHANGED <<inputs, fi, si, values, reg, i, result, outputs>>

\* lines 580 and 1132: the loop test fails
CostesExit ==
    /\ pc = "while"
    /\ ~LoopTest(i)
    /\ pc' = "accepted"
    /\ UNCHANGED <<inputs, fi, si, values, costes, result, outputs>>

\* lines 592-620: C1 and C2 for the accepted thresholds
ImagesCostesEnd ==
    /\ pc = "accepted"
    /\ unit = "images"
    /\ LET c == ImagesCostesManders(fi, si, Thr_fi_c, Thr_si_c)
       IN  values' = [values EXCEPT !.C1 = c.C1, !.C2 = c.C2]
    /\ result' = result \o ImagesCostesRows(values')
    /\ pc' = "add"
    /\ UNCHANGED <<inputs, fi, si, costes, outputs>>

\* lines 638-684: the measurements are added and result is returned
ImagesAdd ==
    /\ pc = "add"
    /\ unit = "images"
    /\ measurements' = ImagesMeasurements(flags, values)
    /\ pc' = "done"
    /\ UNCHANGED <<inputs, fi, si, values, costes, result, raised>>

CostesSearch == CostesStart \/ CostesContinue \/ CostesBreak \/ CostesExit

\* the pair of images of the whole-image unit
InitImages ==
    /\ unit = "images"
    /\ first_pixel_data \in [1..NPix -> Grey \cup NonFinite]
    /\ second_pixel_data \in [1..NPix -> Grey \cup NonFinite]
    /\ Ascending(first_pixel_data, second_pixel_data)
    /\ \E mp \in MaskPairs : first_mask = mp[1] /\ second_mask = mp[2]
    /\ first_shape = <<1, NPix>>
    /\ second_shape = <<1, NPix>>
    /\ segmented = [j \in 1..NPix |-> 0]
    /\ n_objects = 0
    /\ \/ /\ AllGrey(first_pixel_data) /\ AllGrey(second_pixel_data)
          /\ flags \in AllFlags
          /\ thr = 15
          \* the search is run on the constant images and on the unmasked ones
          /\ flags["costes"] /\ (\E j \in 1..NPix : first_mask[j] /\ second_mask[j])
                => /\ flags \in {AllOn, OnlyCostes}
                   /\ \/ Constant(first_pixel_data) /\ Constant(second_pixel_data)
                      \/ first_mask = AllTrue /\ second_mask = AllTrue
       \/ /\ AllGrey(first_pixel_data) /\ AllGrey(second_pixel_data)
          /\ flags = AllButCostes
          /\ thr \in ThrValues \ {15}
       \* pixels that are no numbers or infinite, no family enabled
       \/ /\ \A j \in 1..NPix : first_pixel_data[j] \in NonFinite \cup {1}
          /\ \A j \in 1..NPix : second_pixel_data[j] \in NonFinite \cup {1}
          /\ flags = NoFlags
          /\ thr = 15
    /\ InitLocals
    /\ PairOfUnit
    /\ FamiliesPicked

NextImages == ImagesBegin \/ CostesSearch \/ ImagesCostesEnd \/ ImagesAdd

SpecImages == InitImages /\ [][NextImages]_vars

(* ------------------------------ object unit ---------------------------- *)
\* lines 723-726: the object sample
first_pixels == Compress(first_pixel_data, ObjectMask(segmented, first_mask, second_mask))
second_pixels == Compress(second_pixel_data, ObjectMask(segmented, first_mask, second_mask))
labels == Compress(segmented, ObjectMask(segmented, first_mask, second_mask))

\* lines 700-1110 but the Costes family: the samples, the three branches on
\* n_objects and the image mask, and the families on the object sample
ObjectsBegin ==
    /\ pc = "run"
    /\ unit = "objects"
    /\ LET mask == PairMask(first_pixel_data, second_pixel_data, first_mask, second_mask)
       IN  /\ IF AnyTrue(mask)
              THEN /\ fi' = Compress(first_pixel_data, mask)
                   /\ si' = Compress(second_pixel_data, mask)
              ELSE UNCHANGED <<fi, si>>
           /\ IF n_objects = 0
              THEN /\ values' = ObjectsAll(<< >>)
                   /\ pc' = "add"
                   /\ UNCHANGED <<result, raised>>
              ELSE IF ~AnyTrue(mask)
              THEN /\ values' = ObjectsAll(NaNs(n_objects))
                   /\ pc' = "add"
                   /\ UNCHANGED <<result, raised>>
              ELSE IF Len(labels) = 0 /\ RaisesOnEmpty(flags)
              THEN /\ raised' = "ValueError"
                   /\ pc' = "done"
                   /\ UNCHANGED <<values, result>>
              ELSE /\ values' = ObjectsFamilies(first_pixels, second_pixels, labels,
                                                n_objects, thr, flags)
                   /\ result' = ObjectsRows(flags, values')
                   /\ pc' = IF flags["costes"] THEN "costes" ELSE "add"
                   /\ UNCHANGED raised
    /\ UNCHANGED <<inputs, costes, measurements>>

\* lines 1144-1240: C1 and C2 of each object for the accepted thresholds
ObjectsCostesEnd ==
    /\ pc = "accepted"
    /\ unit = "objects"
    /\ LET c == ObjectsCostesManders(first_pixels, second_pixels, labels,
                                     n_objects, Thr_fi_c, Thr_si_c)
       IN  values' = [values EXCEPT !.C1 = c.C1, !.C2 = c.C2]
    /\ result' = result \o ObjectsCostesRows(values')
    /\ pc' = "add"
    /\ UNCHANGED <<inputs, fi, si, costes, outputs>>

\* lines 1242-1328: the measurements are added and the rows returned
ObjectsAdd ==
    /\ pc = "add"
    /\ unit = "objects"
    /\ measurements' = ObjectsMeasurements(flags, values)
    /\ result' = IF n_objects = 0 THEN NoObjectRows ELSE result
    /\ pc' = "done"
    /\ UNCHANGED <<inputs, fi, si, values, costes, raised>>

\* objects.count of a label matrix whose labels are 1..count
Count(lab) == Cardinality({lab[j] : j \in 1..Len(lab)} \ {0})
LabelMaps ==
    {lab \in [1..NPix -> ObjectCounts] :
        \A l \in 1..Count(lab) : \E j \in 1..NPix : lab[j] = l}
NonIncreasing(lab) == \A j \in 1..(Len(lab) - 1) : lab[j] >= lab[j + 1]

\* the pair of images and the objects of the object unit
InitObjects ==
    /\ unit = "objects"
    /\ first_pixel_data \in [1..NPix -> Grey]
    /\ second_pixel_data \in [1..NPix -> Grey]
    /\ Ascending(first_pixel_data, second_pixel_data)
    /\ \E mp \in MaskPairs : first_mask = mp[1] /\ second_mask = mp[2]
    /\ first_shape = <<1, NPix>>
    /\ second_shape = <<1, NPix>>
    /\ segmented \in LabelMaps
    /\ n_objects = Count(segmented)
    /\ \/ /\ flags \in AllFlags
          /\ ~flags["costes"]
          /\ thr = 15
          /\ Constant(first_pixel_data) /\ Constant(second_pixel_data)
       \/ /\ flags = AllButCostes
          /\ thr \in ThrValues
          /\ first_mask = AllTrue /\ second_mask = AllTrue
          /\ thr # 15 => NonIncreasing(segmented)
       \/ /\ flags \in {AllOn, OnlyCostes}
          /\ thr = 15
          /\ first_pixel_data = second_pixel_data
          /\ NonIncreasing(segmented)
    /\ InitLocals
    /\ PairOfUnit
    /\ FamiliesPicked

NextObjects == ObjectsBegin \/ CostesSearch \/ ObjectsCostesEnd \/ ObjectsAdd

SpecObjects == InitObjects /\ [][NextObjects]_vars

(* --------------------- the Costes search of both units ----------------- *)
InitCostes ==
    /\ unit \in {"images", "objects"}
    /\ first_pixel_data \in [1..NPix -> Grey]
    /\ second_pixel_data \in [1..NPix -> Grey]
    /\ Ascending(first_pixel_data, second_pixel_data)
    /\ first_mask = AllTrue
    /\ second_mask = AllTrue
    /\ first_shape = <<1, NPix>>
    /\ second_shape = <<1, NPix>>
    /\ segmented = [j \in 1..NPix |-> IF unit = "objects" THEN 1 ELSE 0]
    /\ n_objects = Count(segmented)
    /\ thr = 15
    /\ flags = OnlyCostes
    /\ InitLocals
    /\ PairOfUnit
    /\ FamiliesPicked

NextCostes ==
    \/ ImagesBegin \/ ObjectsBegin
    \/ CostesSearch
    \/ ImagesCostesEnd \/ ObjectsCostesEnd
    \/ ImagesAdd \/ ObjectsAdd

SpecCostes == InitCostes /\ [][NextCostes]_vars

(* ------------- the Costes family under several label maps ------------- *)
\* label maps of one object with background and of two objects
CostesLabelMaps ==
    {[j \in 1..NPix |-> IF j = 1 THEN 0 ELSE 1],
     [j \in 1..NPix |-> IF j = 1 THEN 2 ELSE 1],
     [j \in 1..NPix |-> 1 + (j % 2)]}

\* the whole-image unit and the object unit, the latter under each of the
\* label maps, on every pair of images
InitLabels ==
    /\ unit \in {"images", "objects"}
    /\ first_pixel_data \in [1..NPix -> Grey]
    /\ second_pixel_data \in [1..NPix -> Grey]
    /\ Ascending(first_pixel_data, second_pixel_data)
    /\ first_mask = AllTrue
    /\ second_mask = AllTrue
    /\ first_shape = <<1, NPix>>
    /\ second_shape = <<1, NPix>>
    /\ IF unit = "objects"
       THEN segmented \in CostesLabelMaps
       ELSE segmented = [j \in 1..NPix |-> 0]
    /\ n_objects = Count(segmented)
    /\ thr = 15
    /\ flags = OnlyCostes
    /\ InitLocals
    /\ PairOfUnit
    /\ FamiliesPicked

NextLabels ==
    \/ ImagesBegin \/ ObjectsBegin
    \/ CostesSearch
    \/ ImagesCostesEnd \/ ObjectsCostesEnd
    \/ ImagesAdd \/ ObjectsAdd

SpecLabels == InitLabels /\ [][NextLabels]_vars

(* ------------------ the rows returned, by flag and unit ---------------- *)
\* Both units under every selection of families, on two pairs of images,
\* every pair of masks of the model and label maps of 0, 1 and 2 objects,
\* one of them with its object on the first pixel alone.
InitRows ==
    /\ unit \in {"images", "objects"}
    /\ first_pixel_data = [j \in 1..NPix |-> (j - 1) % Cardinality(Grey)]
    /\ second_pixel_data \in {first_pixel_data,
                               [j \in 1..NPix |-> (NPix - j) % Cardinality(Grey)]}
    /\ \E mp \in MaskPairs : first_mask = mp[1] /\ second_mask = mp[2]
    /\ first_shape = <<1, NPix>>
    /\ second_shape = <<1, NPix>>
    /\ IF unit = "objects"
       THEN segmented \in CostesLabelMaps
                           \cup {[j \in 1..NPix |-> 0],
                                 [j \in 1..NPix |-> IF j = 1 THEN 1 ELSE 0]}
       ELSE segmented = [j \in 1..NPix |-> 0]
    /\ n_objects = Count(segmented)
    /\ thr = 15
    /\ flags \in AllFlags
    /\ InitLocals
    /\ PairOfUnit
    /\ do_all \in BOOLEAN

NextRows ==
    \/ ImagesBegin \/ ObjectsBegin
    \/ CostesSearch
    \/ ImagesCostesEnd \/ ObjectsCostesEnd
    \/ ImagesAdd \/ ObjectsAdd

SpecRows == InitRows /\ [][NextRows]_vars

(* ------------- the fixed-threshold families of both units ------------- *)
\* Both units on every pair of images, every value of the threshold and
\* every family but Costes; the object unit on every label map with an
\* object, on unmasked images.
InitThresholds ==
    /\ unit \in {"images", "objects"}
    /\ first_pixel_data \in [1..NPix -> Grey]
    /\ second_pixel_data \in [1..NPix -> Grey]
    /\ Ascending(first_pixel_data, second_pixel_data)
    /\ first_shape = <<1, NPix>>
    /\ second_shape = <<1, NPix>>
    /\ flags = AllButCostes
    /\ \/ /\ unit = "images"
          /\ \E mp \in MaskPairs : first_mask = mp[1] /\ second_mask = mp[2]
          /\ segmented = [j \in 1..NPix |-> 0]
          /\ thr \in ThrValues
       \/ /\ unit = "objects"
          /\ first_mask = AllTrue
          /\ second_mask = AllTrue
          /\ segmented \in LabelMaps
          /\ Count(segmented) > 0
          /\ thr \in {15, 50}
    /\ n_objects = Count(segmented)
    /\ InitLocals
    /\ PairOfUnit
    /\ FamiliesPicked

NextThresholds == ImagesBegin \/ ImagesAdd \/ ObjectsBegin \/ ObjectsAdd

SpecThresholds == InitThresholds /\ [][NextThresholds]_vars

(* ------------------- the alignment of the two images ------------------- *)
Shapes == (1..MaxDim) \X (1..MaxDim)
\* numpy.product(pixel_data.shape)
Product(shape) == shape[1] * shape[2]
Min2(x, y) == IF x < y THEN x ELSE y
Max2(x, y) == IF x < y THEN y ELSE x

\* image.crop_image_similarly(data): data of the given shape cropped to the
\* coordinate extent of the image, anchored at the origin of each axis.  The
\* arrays are kept in raster order.
CropShape(shape, to) == <<Min2(shape[1], to[1]), Min2(shape[2], to[2])>>
crop_image_similarly(data, shape, to) ==
    LET cs == CropShape(shape, to)
    IN  [k \in 1..Product(cs) |->
            data[((k - 1) \div cs[2]) * shape[2] + ((k - 1) % cs[2]) + 1]]

\* numpy broadcasting of two arrays in an elementwise operation
Broadcastable(s1, s2) ==
    \A axis \in 1..2 : s1[axis] = s2[axis] \/ s1[axis] = 1 \/ s2[axis] = 1
\* the entry of the array at index (a, b) of the broadcast result
BroadcastAt(data, shape, a, b) ==
    data[((IF shape[1] = 1 THEN 1 ELSE a) - 1) * shape[2]
         + (IF shape[2] = 1 THEN 1 ELSE b)]
\* numpy.any(mask) for the mask of lines 430-435 over broadcast arrays
BroadcastAny(fpd, fm, fs, spd, sm, ss) ==
    \E a \in 1..Max2(fs[1], ss[1]), b \in 1..Max2(fs[2], ss[2]) :
        /\ BroadcastAt(fm, fs, a, b) /\ BroadcastAt(sm, ss, a, b)
        /\ ~IsNaNPixel(BroadcastAt(fpd, fs, a, b))
        /\ ~IsNaNPixel(BroadcastAt(spd, ss, a, b))

\* lines 415-435 and 728-748: the image with more pixels and its mask are
\* cropped to the other image; then the masks and the isnan tests are
\* conjoined.  Arrays of one shape go on to the unit.  Arrays of two shapes:
\* the conjunction raises ValueError when they cannot be broadcast; else the
\* mask has the broadcast shape, and indexing an image with it (lines 438-439
\* and 750-751) raises IndexError unless numpy.any(mask) is False, in which
\* case the unit goes on without a sample (lines 622-633, 756-770).
Align ==
    /\ pc = "align"
    /\ LET first_pixel_count == Product(first_shape)
           second_pixel_count == Product(second_shape)
           crop_second == first_pixel_count < second_pixel_count
           crop_first == second_pixel_count < first_pixel_count
           fs == IF crop_first THEN CropShape(first_shape, second_shape) ELSE first_shape
           ss == IF crop_second THEN CropShape(second_shape, first_shape) ELSE second_shape
           fpd == IF crop_first
                  THEN crop_image_similarly(first_pixel_data, first_shape, second_shape)
                  ELSE first_pixel_data
           fm == IF crop_first
                 THEN crop_image_similarly(first_mask, first_shape, second_shape)
                 ELSE first_mask
           spd == IF crop_second
                  THEN crop_image_similarly(second_pixel_data, second_shape, first_shape)
                  ELSE second_pixel_data
           sm == IF crop_second
                 THEN crop_image_similarly(second_mask, second_shape, first_shape)
                 ELSE second_mask
       IN  /\ first_pixel_data' = fpd
           /\ first_mask' = fm
           /\ first_shape' = fs
           /\ second_pixel_data' = spd
           /\ second_mask' = sm
           /\ second_shape' = ss
           /\ IF fs = ss
              THEN pc' = "run" /\ UNCHANGED <<values, raised>>
              ELSE IF ~Broadcastable(fs, ss)
              THEN raised' = "ValueError" /\ pc' = "done" /\ UNCHANGED values
              ELSE IF BroadcastAny(fpd, fm, fs, spd, sm, ss)
              THEN raised' = "IndexError" /\ pc' = "done" /\ UNCHANGED values
              ELSE /\ values' = IF unit = "images" THEN ImagesNoData
                                ELSE IF n_objects = 0 THEN ObjectsAll(<< >>)
                                ELSE ObjectsAll(NaNs(n_objects))
                   /\ pc' = "add"
                   /\ UNCHANGED raised
    /\ UNCHANGED <<module_settings, run_state, segmented, n_objects, thr, flags,
                   unit, fi, si, costes, result, measurements>>

\* two images of any two shapes, each mask all true or all false
Uniform(shape) == {[k \in 1..Product(shape) |-> b] : b \in BOOLEAN}
InitAlign ==
    /\ unit \in {"images", "objects"}
    /\ first_shape \in Shapes
    /\ second_shape \in Shapes
    /\ first_pixel_data = [k \in 1..Product(first_shape) |-> k % Cardinality(Grey)]
    /\ second_pixel_data = [k \in 1..Product(second_shape) |-> k % Cardinality(Grey)]
    /\ first_mask \in Uniform(first_shape)
    /\ second_mask \in Uniform(second_shape)
    /\ segmented = [j \in 1..NPix |-> 0]
    /\ n_objects = 0
    /\ thr = 15
    /\ flags \in {NoFlags, AllButCostes}
    /\ pc = "align"
    /\ Unassigned
    /\ PairOfUnit
    /\ FamiliesPicked

NextAlign == Align \/ ImagesBegin \/ ImagesAdd \/ ObjectsBegin \/ ObjectsAdd

SpecAlign == InitAlign /\ [][NextAlign]_vars

(* -------------------------------- run ---------------------------------- *)
\* lines 370-376
wants_images == images_or_objects \in {M_IMAGES, M_IMAGES_AND_OBJECTS}
wants_objects == images_or_objects \in {M_OBJECTS, M_IMAGES_AND_OBJECTS}

\* the index pairs of the two loops of get_image_pairs, from 1, and their order
PairIndices(n) == {p \in (1..n) \X (1..n) : p[1] < p[2]}
PairBefore(p, q) == p[1] < q[1] \/ (p[1] = q[1] /\ p[2] < q[2])
\* index pairs that take a group with every other group, in both orderings
AllOrderings(n) == {p \in (1..n) \X (1..n) : p[1] # p[2]}
\* the pairs get_image_pairs would yield over AllOrderings
get_image_pairs_both_orderings ==
    LET P == AllOrderings(Len(image_groups))
        at(k) == CHOOSE p \in P : Cardinality({q \in P : PairBefore(q, p)}) = k - 1
    IN  [k \in 1..Cardinality(P) |->
            <<image_groups[at(k)[1]].image_name, image_groups[at(k)[2]].image_name>>]
\* lines 358-368: the pairs yielded, in order; image_count.value is the
\* number of image groups
get_image_pairs ==
    LET P == PairIndices(Len(image_groups))
        at(k) == CHOOSE p \in P : Cardinality({q \in P : PairBefore(q, p)}) = k - 1
    IN  [k \in 1..Cardinality(P) |->
            <<image_groups[at(k)[1]].image_name, image_groups[at(k)[2]].image_name>>]

Unit(first, second, objects) == [first |-> first, second |-> second, objects |-> objects]
\* lines 383-394: the units of one pair, in the order run calls them
UnitsOfPair(pair) ==
    (IF wants_images THEN <<Unit(pair[1], pair[2], IMAGE)>> ELSE << >>)
    \o (IF wants_objects
        THEN [k \in 1..Len(object_groups) |->
                Unit(pair[1], pair[2], object_groups[k].object_name)]
        ELSE << >>)
\* lines 382-394: the units of the run, in order
RunOrder ==
    LET pairs == get_image_pairs
        per == (IF wants_images THEN 1 ELSE 0)
               + (IF wants_objects THEN Len(object_groups) ELSE 0)
    IN  [k \in 1..(Len(pairs) * per) |->
            UnitsOfPair(pairs[((k - 1) \div per) + 1])[((k - 1) % per) + 1]]

\* lines 638-682: the features the whole-image unit adds, in order
ImageWrites(fl, first, second) ==
    (IF fl["corr_and_slope"]
     THEN <<Feature(F_CORRELATION_FORMAT, first, second),
            Feature(F_SLOPE_FORMAT, first, second)>> ELSE << >>)
    \o (IF fl["overlap"]
        THEN <<Feature(F_OVERLAP_FORMAT, first, second),
               Feature(F_K_FORMAT, first, second),
               Feature(F_K_FORMAT, second, first)>> ELSE << >>)
    \o (IF fl["manders"]
        THEN <<Feature(F_MANDERS_FORMAT, first, second),
               Feature(F_MANDERS_FORMAT, second, first)>> ELSE << >>)
    \o (IF fl["rwc"]
        THEN <<Feature(F_RWC_FORMAT, first, second),
               Feature(F_RWC_FORMAT, second, first)>> ELSE << >>)
    \o (IF fl["costes"]
        THEN <<Feature(F_COSTES_FORMAT, first, second),
               Feature(F_COSTES_FORMAT, second, first)>> ELSE << >>)
\* lines 1242-1294: the features the object unit adds, in order
ObjectWrites(fl, first, second) ==
    (IF fl["corr_and_slope"]
     THEN <<Feature(F_CORRELATION_FORMAT, first, second)>> ELSE << >>)
    \o (IF fl["manders"]
        THEN <<Feature(F_MANDERS_FORMAT, first, second),
               Feature(F_MANDERS_FORMAT, second, first)>> ELSE << >>)
    \o (IF fl["rwc"]
        THEN <<Feature(F_RWC_FORMAT, first, second),
               Feature(F_RWC_FORMAT, second, first)>> ELSE << >>)
    \o (IF fl["overlap"]
        THEN <<Feature(F_OVERLAP_FORMAT, first, second),
               Feature(F_K_FORMAT, first, second),
               Feature(F_K_FORMAT, second, first)>> ELSE << >>)
    \o (IF fl["costes"]
        THEN <<Feature(F_COSTES_FORMAT, first, second),
               Feature(F_COSTES_FORMAT, second, first)>> ELSE << >>)
\* lines 1334-1406: the columns of the whole-image unit of one pair
ImageColumns(fl, first, second) ==
    (IF fl["corr_and_slope"]
     THEN <<<<IMAGE, Feature(F_CORRELATION_FORMAT, first, second)>>,
            <<IMAGE, Feature(F_SLOPE_FORMAT, first, second)>>>> ELSE << >>)
    \o (IF fl["overlap"]
        THEN <<<<IMAGE, Feature(F_OVERLAP_FORMAT, first, second)>>,
               <<IMAGE, Feature(F_K_FORMAT, first, second)>>,
               <<IMAGE, Feature(F_K_FORMAT, second, first)>>>> ELSE << >>)
    \o (IF fl["manders"]
        THEN <<<<IMAGE, Feature(F_MANDERS_FORMAT, first, second)>>,
               <<IMAGE, Feature(F_MANDERS_FORMAT, second, first)>>>> ELSE << >>)
    \o (IF fl["rwc"]
        THEN <<<<IMAGE, Feature(F_RWC_FORMAT, first, second)>>,
               <<IMAGE, Feature(F_RWC_FORMAT, second, first)>>>> ELSE << >>)
    \o (IF fl["costes"]
        THEN <<<<IMAGE, Feature(F_COSTES_FORMAT, first, second)>>,
               <<IMAGE, Feature(F_COSTES_FORMAT, second, first)>>>> ELSE << >>)
\* lines 1410-1462: the columns of one object unit of one pair
ObjectColumns(fl, name, first, second) ==
    (IF fl["corr_and_slope"]
     THEN <<<<name, Feature(F_CORRELATION_FORMAT, first, second)>>>> ELSE << >>)
    \o (IF fl["overlap"]
        THEN <<<<name, Feature(F_OVERLAP_FORMAT, first, second)>>,
               <<name, Feature(F_K_FORMAT, first, second)>>,
               <<name, Feature(F_K_FORMAT, second, first)>>>> ELSE << >>)
    \o (IF fl["manders"]
        THEN <<<<name, Feature(F_MANDERS_FORMAT, first, second)>>,
               <<name, Feature(F_MANDERS_FORMAT, second, first)>>>> ELSE << >>)
    \o (IF fl["rwc"]
        THEN <<<<name, Feature(F_RWC_FORMAT, first, second)>>,
               <<name, Feature(F_RWC_FORMAT, second, first)>>>> ELSE << >>)
    \o (IF fl["costes"]
        THEN <<<<name, Feature(F_COSTES_FORMAT, first, second)>>,
               <<name, Feature(F_COSTES_FORMAT, second, first)>>>> ELSE << >>)
RECURSIVE ColumnsOfObjects(_, _, _, _)
\* lines 1408-1462: the loop over range(object_count.value), from group k on
ColumnsOfObjects(fl, k, first, second) ==
    IF k > Len(object_groups) THEN << >>
    ELSE ObjectColumns(fl, object_groups[k].object_name, first, second)
         \o ColumnsOfObjects(fl, k + 1, first, second)
RECURSIVE ColumnsOfPairs(_, _)
\* lines 1333-1462: the loop over get_image_pairs(), from pair k on
ColumnsOfPairs(fl, k) ==
    IF k > Len(get_image_pairs) THEN << >>
    ELSE LET first == get_image_pairs[k][1]
             second == get_image_pairs[k][2]
         IN  (IF wants_images THEN ImageColumns(fl, first, second) ELSE << >>)
             \o (IF wants_objects THEN ColumnsOfObjects(fl, 1, first, second)
                 ELSE << >>)
             \o ColumnsOfPairs(fl, k + 1)
\* lines 1330-1463
get_measurement_columns == ColumnsOfPairs(flags, 1)

\* the store after add_measurement(objects, f, ...) for each f of features
Written(st, objects, features) ==
    LET K == {<<objects, features[x]>> : x \in 1..Len(features)}
    IN  [k \in (DOMAIN st) \cup K |->
            (IF k \in DOMAIN st THEN st[k] ELSE 0)
            + Cardinality({x \in 1..Len(features) : <<objects, features[x]>> = k})]

\* lines 382-394: run calls its next unit, which adds its measurements (a
\* unit that ends without an exception)
RunUnit ==
    /\ pc = "units"
    /\ Len(calls) < Len(RunOrder)
    /\ LET u == RunOrder[Len(calls) + 1]
       IN  /\ calls' = Append(calls, u)
           /\ store' = Written(store, u.objects,
                               IF u.objects = IMAGE
                               THEN ImageWrites(flags, u.first, u.second)
                               ELSE ObjectWrites(flags, u.first, u.second))
    /\ UNCHANGED <<first_pixel_data, second_pixel_data, first_mask, second_mask,
                   first_shape, second_shape, segmented, n_objects, thr, flags,
                   unit, module_settings, call, returned, pc, fi, si, values,
                   costes, result, outputs>>

ImageNames == {"A", "B", "A_A", "C"}
ObjectNames == {"Nuclei", "Cells"}
\* sequences of 'least' to 'most' different names
NameLists(names, least, most) ==
    UNION {{q \in [1..n -> names] : \A x, y \in 1..n : x # y => q[x] # q[y]} :
              n \in least..most}
\* a module of two or more images with different names, one or more objects
\* with different names, every mode, before run
InitRun ==
    /\ \E q \in NameLists(ImageNames, 2, MaxImages) :
          image_groups = [k \in 1..Len(q) |-> ImageGroup(q[k], k > 2, k)]
    /\ \E q \in NameLists(ObjectNames, 1, MaxObjects) :
          object_groups = [k \in 1..Len(q) |-> ObjectGroup(q[k], k > 1, k)]
    /\ images_or_objects \in {M_IMAGES, M_OBJECTS, M_IMAGES_AND_OBJECTS}
    /\ do_all \in BOOLEAN
    /\ flags \in {AllOn, AllButCostes, OnlyCostes}
    /\ calls = << >>
    /\ store = << >>
    /\ call = Call("run", << >>)
    /\ returned = << >>
    /\ unit = "images"
    /\ first_pixel_data = [j \in 1..NPix |-> 0]
    /\ second_pixel_data = [j \in 1..NPix |-> 0]
    /\ first_mask = AllTrue
    /\ second_mask = AllTrue
    /\ first_shape = <<1, NPix>>
    /\ second_shape = <<1, NPix>>
    /\ segmented = [j \in 1..NPix |-> 0]
    /\ n_objects = 0
    /\ thr = 15
    /\ pc = "units"
    /\ Unassigned

NextRun == RunUnit

SpecRun == InitRun /\ [][NextRun]_vars

(* ------------------------------ the settings --------------------------- *)
\* cellprofiler.setting.NONE, the value of a name setting not yet chosen
NONE == "None"
Digits == <<"0", "1", "2", "3", "4", "5", "6", "7", "8", "9">>
\* int(s) and str(n) for one decimal digit
int(s) == (CHOOSE d \in 1..10 : Digits[d] = s) - 1
str(n) == Digits[n + 1]

\* which group a new group is: the least number no group of the list has
FreshId(groups) ==
    CHOOSE n \in 1..(Len(groups) + 1) :
        /\ \A k \in 1..Len(groups) : groups[k].id # n
        /\ \A m \in 1..(n - 1) : \E k \in 1..Len(groups) : groups[k].id = m
\* lines 227-258 and 260-285: the list after add_image, add_object
AddedImage(groups, can_delete) ==
    Append(groups, ImageGroup(NONE, can_delete, FreshId(groups)))
AddedObject(groups, can_delete) ==
    Append(groups, ObjectGroup(NONE, can_delete, FreshId(groups)))
\* every group has a remover
RemovableAlways(group) == TRUE
\* lines 250-256 and 277-284: the group has a remover button
Removable(group) == group.can_delete
\* the list after the remover of group k is pressed
Removed(groups, k) == SubSeq(groups, 1, k - 1) \o SubSeq(groups, k + 1, Len(groups))
\* del groups[count:]
Truncated(groups, count) == SubSeq(groups, 1, Min2(count, Len(groups)))
\* the image groups rebuilt from nothing
PreparedImagesAnew(groups, count) ==
    [k \in 1..count |-> ImageGroup(NONE, TRUE, Len(groups) + k)]
\* lines 314-316: del self.image_groups[image_count:], then add_image() while
\* there are fewer than image_count
PreparedImages(groups, count) ==
    LET kept == Truncated(groups, count)
        ids == {kept[k].id : k \in 1..Len(kept)}
        new == {n \in 1..count : n \notin ids}
        nth(m) == CHOOSE n \in new : Cardinality({x \in new : x < n}) = m - 1
    IN  kept \o [m \in 1..(count - Len(kept)) |-> ImageGroup(NONE, TRUE, nth(m))]
\* lines 318-320
PreparedObjects(groups, count) ==
    LET kept == Truncated(groups, count)
        ids == {kept[k].id : k \in 1..Len(kept)}
        new == {n \in 1..count : n \notin ids}
        nth(m) == CHOOSE n \in new : Cardinality({x \in new : x < n}) = m - 1
    IN  kept \o [m \in 1..(count - Len(kept)) |-> ObjectGroup(NONE, TRUE, nth(m))]

\* what the actions of the settings leave alone
idle == <<first_pixel_data, second_pixel_data, first_mask, second_mask,
          first_shape, second_shape, segmented, n_objects, thr, flags, unit,
          do_all, images_or_objects, calls, store,
          pc, fi, si, values, costes, result, measurements>>

\* the add_image_button
AddImage ==
    /\ pc = "settings"
    /\ Len(image_groups) < MaxImages
    /\ image_groups' = AddedImage(image_groups, TRUE)
    /\ call' = Call("add_image", << >>)
    /\ returned' = << >>
    /\ raised' = "none"
    /\ UNCHANGED <<idle, object_groups>>

\* the remover of an image group
RemoveImage ==
    /\ pc = "settings"
    /\ \E k \in 1..Len(image_groups) :
          /\ Removable(image_groups[k])
          /\ image_groups' = Removed(image_groups, k)
          /\ call' = Call("remove_image", <<k>>)
    /\ returned' = << >>
    /\ raised' = "none"
    /\ UNCHANGED <<idle, object_groups>>

\* the add_object_button
AddObject ==
    /\ pc = "settings"
    /\ Len(object_groups) < MaxObjects
    /\ object_groups' = AddedObject(object_groups, TRUE)
    /\ call' = Call("add_object", << >>)
    /\ returned' = << >>
    /\ raised' = "none"
    /\ UNCHANGED <<idle, image_groups>>

\* the remover of an object group
RemoveObject ==
    /\ pc = "settings"
    /\ \E k \in 1..Len(object_groups) :
          /\ Removable(object_groups[k])
          /\ object_groups' = Removed(object_groups, k)
          /\ call' = Call("remove_object", <<k>>)
    /\ returned' = << >>
    /\ raised' = "none"
    /\ UNCHANGED <<idle, image_groups>>

\* the first two setting values of a pipeline: the two counts
SettingCounts == {<<str(ic), str(oc)>> : ic \in 0..MaxImages, oc \in 0..MaxObjects}

\* lines 304-320
PrepareSettings ==
    /\ pc = "settings"
    /\ \E setting_values \in SettingCounts :
          LET image_count == int(setting_values[1])
              object_count == int(setting_values[2])
          IN  /\ call' = Call("prepare_settings", setting_values)
              /\ IF image_count < 2
                 THEN /\ raised' = "ValueError"
                      /\ UNCHANGED <<image_groups, object_groups>>
                 ELSE /\ raised' = "none"
                      /\ image_groups' = PreparedImages(image_groups, image_count)
                      /\ object_groups' = PreparedObjects(object_groups, object_count)
    /\ returned' = << >>
    /\ UNCHANGED idle

\* lines 347-356: self.image_groups[0] and self.object_groups[0] are read
HelpSettings ==
    /\ pc = "settings"
    /\ call' = Call("help_settings", << >>)
    /\ IF Len(image_groups) = 0 \/ Len(object_groups) = 0
       THEN raised' = "IndexError" /\ returned' = << >>
       ELSE /\ raised' = "none"
            /\ returned' = <<"images_or_objects", "thr", image_groups[1].id,
                             object_groups[1].id, "do_all">>
    /\ UNCHANGED <<idle, image_groups, object_groups>>

\* lines 287-302: which setting is saved in which place, for a module of
\* image_count image groups and object_count object groups
SettingSlots(image_count, object_count) ==
    <<"image_count", "object_count">>
    \o [k \in 1..image_count |-> "image_name"]
    \o <<"thr">>
    \o <<"images_or_objects">>
    \o [k \in 1..object_count |-> "object_name"]
    \o <<"do_all", "do_corr_and_slope", "do_manders", "do_rwc", "do_overlap",
         "do_costes">>
settings == SettingSlots(Len(image_groups), Len(object_groups))

\* the values of a saved pipeline, by the place of each
SavedImageNames == <<"DNA", "Actin", "Tubulin", "Golgi", "ER">>
SavedObjectNames == <<"Nuclei", "Cells", "Cytoplasm", "Speckles">>
SavedValue(slot, place, image_count, object_count) ==
    CASE slot = "image_count" -> str(image_count)
      [] slot = "object_count" -> str(object_count)
      [] slot = "image_name" -> SavedImageNames[place - 2]
      [] slot = "thr" -> "30.0"
      [] slot = "images_or_objects" -> M_IMAGES_AND_OBJECTS
      [] slot = "object_name" -> SavedObjectNames[place - image_count - 4]
      [] OTHER -> slot
\* what revision 3 saves, lines 287-302
SavedValues(image_count, object_count) ==
    LET slots == SettingSlots(image_count, object_count)
    IN  [k \in 1..Len(slots) |-> SavedValue(slots[k], k, image_count, object_count)]
\* a list without its entry at place k
Without(list, k) == SubSeq(list, 1, k - 1) \o SubSeq(list, k + 1, Len(list))
\* the pipelines upgrade_settings is given: those of revision 3, and those
\* of revision 2, which have no threshold
SavedPipelines ==
    UNION {{SavedValues(ic, oc), Without(SavedValues(ic, oc), ic + 3)} :
              ic \in 2..MaxImages, oc \in 1..MaxObjects}
Revisions == 1..3

\* the threshold put one place too far
InsertedThrAfterMode(setting_values, idx_thr) ==
    SubSeq(setting_values, 1, idx_thr + 1) \o <<"15.0">>
    \o SubSeq(setting_values, idx_thr + 2, Len(setting_values))
\* lines 1537-1539: setting_values[:idx_thr] + ["15.0"] + setting_values[idx_thr:]
InsertedThr(setting_values, idx_thr) ==
    SubSeq(setting_values, 1, Min2(idx_thr, Len(setting_values))) \o <<"15.0">>
    \o SubSeq(setting_values, idx_thr + 1, Len(setting_values))

\* lines 1520-1542
UpgradeSettings ==
    /\ pc = "settings"
    /\ \E setting_values \in SavedPipelines, variable_revision_number \in Revisions,
          from_matlab \in BOOLEAN :
          /\ call' = Call("upgrade_settings",
                          <<setting_values, variable_revision_number, from_matlab>>)
          /\ IF from_matlab
             THEN raised' = "NotImplementedError" /\ returned' = << >>
             ELSE IF variable_revision_number < 2
             THEN raised' = "NotImplementedError" /\ returned' = << >>
             ELSE IF variable_revision_number = 2
             THEN LET image_count == int(setting_values[1])
                      idx_thr == image_count + 2
                  IN  /\ raised' = "none"
                      /\ returned' = <<InsertedThr(setting_values, idx_thr), 3,
                                       from_matlab>>
             ELSE /\ raised' = "none"
                  /\ returned' = <<setting_values, variable_revision_number,
                                   from_matlab>>
    /\ UNCHANGED <<idle, image_groups, object_groups>>

\* lines 115-225: the module after create_settings
InitSettings ==
    /\ image_groups = AddedImage(AddedImage(<< >>, FALSE), FALSE)
    /\ object_groups = AddedObject(<< >>, FALSE)
    /\ images_or_objects = M_IMAGES
    /\ do_all = TRUE
    /\ flags = AllOn
    /\ thr = 15
    /\ call = Call("create_settings", << >>)
    /\ returned = << >>
    /\ calls = << >>
    /\ store = << >>
    /\ unit = "images"
    /\ first_pixel_data = [j \in 1..NPix |-> 0]
    /\ second_pixel_data = [j \in 1..NPix |-> 0]
    /\ first_mask = AllTrue
    /\ second_mask = AllTrue
    /\ first_shape = <<1, NPix>>
    /\ second_shape = <<1, NPix>>
    /\ segmented = [j \in 1..NPix |-> 0]
    /\ n_objects = 0
    /\ pc = "settings"
    /\ Unassigned

NextSettings ==
    \/ AddImage \/ RemoveImage
    \/ AddObject \/ RemoveObject
    \/ PrepareSettings
    \/ HelpSettings
    \/ UpgradeSettings

SpecSettings == InitSettings /\ [][NextSettings]_vars

(* ------------------------- the Costes search --------------------------- *)
\* the search has been started: the regression is computed
Searching == pc \in {"while", "accepted", "add", "done"} /\ reg.a # "unset"

\* C3: in both units the Costes search ends after at most 255 passes of the
\* loop body on every sample: the level starts at 1 (grey level 255), each
\* pass that does not break lowers it by 0.003921568627 (one grey level
\* less 115e-12), and after the 255th pass the test i > 0.003921568627
\* fails, so that the loop can only be left.
C3_SearchTerminates ==
    /\ iterations <= Levels
    /\ pc = "while" =>
          i = Level(Levels - iterations * StepWhole, iterations * StepDeficit)
    /\ pc = "while" /\ iterations = Levels => ~LoopTest(i)

\* a search that did not break: 255 passes, left by the loop test
C3_FullSearch ==
    /\ pc = "accepted"
    /\ iterations = Levels
    /\ ~LoopTest(i)
    /\ reg.a = "nan"

\* C4: when the covariance of the nonzero population is zero (denom = 0 on
\* at least two pixels) the search stays at i = 1, and the slope, the
\* intercept and every Thr_si_c it assigns are finite.
C4_ZeroCovarianceGuard ==
    Searching /\ reg.n >= 2 /\ reg.E = 0 =>
        /\ i = Level(Levels, 0)
        /\ reg.a = "fin" /\ reg.b = "fin"
        /\ Thr_si_c.t # "nan"

\* C5: the search never lowers i after a pass whose correlation over the
\* below-threshold set is <= 0 or is not computed (too few samples, or a
\* constant set, for which pearsonr yields nan): after a pass that did not
\* break, costReg is a positive number.
C5_StopsOnUndefinedCorrelation ==
    pc = "while" /\ iterations > 0 => IsFinite(costReg) /\ costReg.n > 0

(* ------------------------- the whole-image unit ------------------------ *)
\* the names of the measurements of a family, in both orders of the images
Both(format) ==
    {Feature(format, first_image_name, second_image_name),
     Feature(format, second_image_name, first_image_name)}
FixedThresholdNames ==
    Both(F_MANDERS_FORMAT) \cup Both(F_RWC_FORMAT) \cup Both(F_K_FORMAT)
    \cup {Feature(F_OVERLAP_FORMAT, first_image_name, second_image_name)}
ThresholdNames == FixedThresholdNames \cup Both(F_COSTES_FORMAT)
Recorded(names) == names \cap DOMAIN measurements

\* the whole-image unit has ended on a sample / without a valid pixel
ImagesDoneOnSample == unit = "images" /\ pc = "done" /\ Len(fi) > 0
ImagesDoneNoData ==
    /\ unit = "images"
    /\ pc = "done"
    /\ ~AnyTrue(PairMask(first_pixel_data, second_pixel_data, first_mask, second_mask))

\* C1: in the whole-image unit, on a sample none of whose pixels satisfies
\* fi > thr_fi and si > thr_si, every recorded measurement of Manders,
\* Overlap, K and RWC is 0.
C1_EmptyCombinedReportsZero ==
    ImagesDoneOnSample /\ ~AnyTrue(ImagesThresholds(fi, si, thr).combined_thresh) =>
        \A name \in Recorded(FixedThresholdNames) : measurements[name] = Zero

\* C6: in the whole-image unit without a valid pixel, every recorded
\* measurement of Manders, Overlap, K, RWC and Costes is NaN.
C6_NoDataThresholdFamilyNaN ==
    ImagesDoneNoData =>
        \A name \in Recorded(ThresholdNames) : measurements[name] = NaN

\* the unit has ended without a valid pixel, every family enabled
C6_NoDataAllFamilies ==
    /\ ImagesDoneNoData
    /\ flags = AllOn
    /\ Recorded(ThresholdNames) = ThresholdNames

\* C6 as stated: without a valid pixel every recorded measurement of
\* Manders, Overlap, K, RWC and Costes is 0.
C6_NoDataThresholdFamilyZero ==
    ImagesDoneNoData =>
        \A name \in Recorded(ThresholdNames) : measurements[name] = Zero

\* C7: in the whole-image unit, when no pixel is in both masks, no sample is
\* extracted, no family is computed (no row, no regression, no pass of the
\* search), nothing is raised, and Correlation and Slope are recorded as NaN.
C7_NoDataCorrelationNaN ==
    unit = "images" /\ (\A j \in 1..NPix : ~(first_mask[j] /\ second_mask[j])) =>
        /\ raised = "none"
        /\ fi = << >> /\ si = << >>
        /\ result = << >>
        /\ reg = NoRegression /\ iterations = 0
        /\ values \in {NoValues, ImagesNoData}
        /\ pc = "done" /\ flags["corr_and_slope"] =>
              /\ measurements[Feature(F_CORRELATION_FORMAT, first_image_name,
                                      second_image_name)] = NaN
              /\ measurements[Feature(F_SLOPE_FORMAT, first_image_name,
                                      second_image_name)] = NaN

\* the unit has ended on two images whose masks are disjoint
C7_DisjointMasksDone ==
    /\ unit = "images"
    /\ pc = "done"
    /\ first_mask = FirstOnly /\ second_mask = AllButFirst
    /\ flags["corr_and_slope"]
    /\ IsNaN(measurements[Feature(F_CORRELATION_FORMAT, first_image_name,
                                  second_image_name)])

(* ----------------------------- the object unit ------------------------- *)
CorrelationName == Feature(F_CORRELATION_FORMAT, first_image_name, second_image_name)
\* the measurements the flags enable in the object unit
EnabledNames(fl) ==
    (IF fl["corr_and_slope"] THEN {CorrelationName} ELSE {})
    \cup (IF fl["manders"] THEN Both(F_MANDERS_FORMAT) ELSE {})
    \cup (IF fl["rwc"] THEN Both(F_RWC_FORMAT) ELSE {})
    \cup (IF fl["overlap"]
          THEN Both(F_K_FORMAT)
               \cup {Feature(F_OVERLAP_FORMAT, first_image_name, second_image_name)}
          ELSE {})
    \cup (IF fl["costes"] THEN Both(F_COSTES_FORMAT) ELSE {})

\* the object unit is run on N > 0 objects and a pair with a valid pixel
ObjectsOnValidPair ==
    /\ unit = "objects"
    /\ n_objects > 0
    /\ AnyTrue(PairMask(first_pixel_data, second_pixel_data, first_mask, second_mask))
\* object k has no pixel in the object sample
NoPixelOf(k) == \A j \in 1..Len(labels) : labels[j] # k
\* object k has no pixel with fi >= thr_fi[k] and si >= thr_si[k]
NoCombinedPixelOf(k) ==
    LET t == ObjectsThresholds(first_pixels, second_pixels, labels, n_objects, thr)
    IN  \A j \in 1..Len(labels) : labels[j] = k => ~t.combined_thresh[j]

\* C2: in the object unit, for every object none of whose own pixels is in
\* combined_thresh, the entries of the recorded Manders, Overlap, K and RWC
\* vectors are 0, whatever the other objects are.
C2_EmptyCombinedPerObjectZero ==
    ObjectsOnValidPair /\ pc = "done" /\ raised = "none" =>
        \A k \in 1..n_objects : NoCombinedPixelOf(k) =>
            \A name \in Recorded(FixedThresholdNames) : measurements[name][k] = Zero

\* C8: in the object unit on N > 0 objects and a pair with a valid pixel,
\* nothing is raised, and an object without a valid pixel has NaN in the
\* recorded correlation vector and 0 in every recorded vector of Manders,
\* Overlap, K, RWC and Costes.
C8_MaskedObjectSentinels ==
    ObjectsOnValidPair =>
        /\ raised = "none"
        /\ pc = "done" =>
              \A k \in 1..n_objects : NoPixelOf(k) =>
                  /\ \A name \in Recorded({CorrelationName}) :
                        measurements[name][k] = NaN
                  /\ \A name \in Recorded(ThresholdNames) :
                        measurements[name][k] = Zero

\* C9: in the object unit on N > 0 objects, when the object sample is empty
\* (no pixel has a label and is in both masks), every recorded vector is of
\* length N and filled with NaN.
C9_NoSampleAllNaN ==
    unit = "objects" /\ n_objects > 0 /\ Len(labels) = 0 /\ pc = "done" =>
        \A name \in DOMAIN measurements : measurements[name] = NaNs(n_objects)

\* C10: in the object unit without objects nothing is raised and no family
\* is computed; every enabled measurement is recorded as a vector of length
\* 0, and the rows returned are the four rows whose value is "-".
C10_NoObjectsZeroLength ==
    unit = "objects" /\ n_objects = 0 =>
        /\ raised = "none"
        /\ pc \in {"run", "add", "done"}
        /\ pc = "done" =>
              /\ DOMAIN measurements = EnabledNames(flags)
              /\ \A name \in DOMAIN measurements : measurements[name] = << >>
              /\ Len(result) = Len(NoObjectRows)
              /\ \A r \in 1..Len(result) : result[r].value = "-"

\* the unit has ended without objects, every family enabled
C10_NoObjectsDone ==
    /\ unit = "objects"
    /\ n_objects = 0
    /\ pc = "done"
    /\ flags = AllOn
    /\ first_mask = FirstOnly
    /\ DOMAIN measurements = EnabledNames(AllOn)

(* ------------------------------ the sample ----------------------------- *)
\* the pixels in both masks whose two intensities are finite
FiniteMask ==
    [j \in 1..NPix |->
        /\ first_mask[j] /\ second_mask[j]
        /\ first_pixel_data[j] \notin NonFinite
        /\ second_pixel_data[j] \notin NonFinite]

\* C11: in the whole-image unit the sample (fi, si) holds exactly the pixels
\* that are in both masks and whose two intensities are finite (not nan, not
\* +inf, not -inf): no pixel with an infinite intensity is in the sample.
C11_SampleIsFinite ==
    unit = "images" /\ pc # "run" =>
        /\ fi = Compress(first_pixel_data, FiniteMask)
        /\ si = Compress(second_pixel_data, FiniteMask)

(* ----------------------------- the alignment --------------------------- *)
\* C12: for two images of any two shapes, once the alignment step is done
\* both pixel arrays and both masks have one common shape, and the
\* conjunction that builds the validity mask is taken without an exception.
C12_CommonShape ==
    pc # "align" =>
        /\ first_shape = second_shape
        /\ Len(first_pixel_data) = Len(second_pixel_data)
        /\ Len(first_mask) = Len(second_mask)
        /\ raised = "none"

(* ------------------------ the Manders coefficients --------------------- *)
\* the sum of v over the samples that keep marks
SumWhere(v, keep) == Sum(Compress(v, keep))
\* the pixels of the object sample that have label k
OfObject(k) == [j \in 1..Len(labels) |-> labels[j] = k]
\* the largest value of v among the pixels of object k (which has a pixel)
MaxOf(v, k) == Max(Compress(v, OfObject(k)))
ImagesMandersDone ==
    unit = "images" /\ pc = "done" /\ Len(fi) > 0 /\ flags["manders"]
ObjectsMandersDone ==
    unit = "objects" /\ pc = "done" /\ raised = "none" /\ flags["manders"]
        /\ Len(labels) > 0
M1_name == Feature(F_MANDERS_FORMAT, first_image_name, second_image_name)
M2_name == Feature(F_MANDERS_FORMAT, second_image_name, first_image_name)

\* C13: M1 is the sum of fi over combined_thresh divided by the sum of fi
\* over the first image's own above-threshold pixels, and M2 likewise with
\* si.  In the whole-image unit both comparisons are strict (fi > thr_fi),
\* so a pixel with fi = thr_fi is not in the denominator; in the object unit,
\* for every object with a pixel, both are non-strict against the thresholds
\* of the object (fi >= thr_fi[k]), so such a pixel is in the denominator.
C13_MandersQuotient ==
    /\ ImagesMandersDone =>
          LET f_own == [j \in 1..Len(fi) |-> 100 * fi[j] > thr * Max(fi)]
              s_own == [j \in 1..Len(si) |-> 100 * si[j] > thr * Max(si)]
              both == [j \in 1..Len(fi) |-> f_own[j] /\ s_own[j]]
          IN  /\ measurements[M1_name] = Div(SumWhere(fi, both), SumWhere(fi, f_own))
              /\ measurements[M2_name] = Div(SumWhere(si, both), SumWhere(si, s_own))
    /\ ObjectsMandersDone =>
          \A k \in 1..n_objects : AnyTrue(OfObject(k)) =>
              LET f_own == [j \in 1..Len(labels) |->
                      labels[j] = k /\ 100 * first_pixels[j] >= thr * MaxOf(first_pixels, k)]
                  s_own == [j \in 1..Len(labels) |->
                      labels[j] = k /\ 100 * second_pixels[j] >= thr * MaxOf(second_pixels, k)]
                  both == [j \in 1..Len(labels) |-> f_own[j] /\ s_own[j]]
              IN  /\ measurements[M1_name][k] =
                        Div(SumWhere(first_pixels, both), SumWhere(first_pixels, f_own))
                  /\ measurements[M2_name][k] =
                        Div(SumWhere(second_pixels, both), SumWhere(second_pixels, s_own))

\* the whole-image unit has ended on a sample with a pixel whose first
\* intensity is exactly thr_fi and is not zero
C13_PixelAtThreshold ==
    /\ ImagesMandersDone
    /\ \E j \in 1..Len(fi) : fi[j] > 0 /\ 100 * fi[j] = thr * Max(fi)
    /\ IsFinite(measurements[M1_name])

\* C13 as stated: in the whole-image unit too the denominator of M1 is the
\* sum of fi over fi >= thr_fi, and that of M2 the sum of si over si >= thr_si.
C13_MandersDenominatorNonStrict ==
    ImagesMandersDone =>
        LET f_own == [j \in 1..Len(fi) |-> 100 * fi[j] > thr * Max(fi)]
            s_own == [j \in 1..Len(si) |-> 100 * si[j] > thr * Max(si)]
            f_atleast == [j \in 1..Len(fi) |-> 100 * fi[j] >= thr * Max(fi)]
            s_atleast == [j \in 1..Len(si) |-> 100 * si[j] >= thr * Max(si)]
            both == [j \in 1..Len(fi) |-> f_own[j] /\ s_own[j]]
        IN  /\ measurements[M1_name] = Div(SumWhere(fi, both), SumWhere(fi, f_atleast))
            /\ measurements[M2_name] = Div(SumWhere(si, both), SumWhere(si, s_atleast))

\* a number of the closed interval [0, 1]
InUnitInterval(v) == v.t \in {"num", "root"} /\ 0 <= v.n /\ v.n <= v.d

\* C14: in both units, on intensities that are not negative and for every
\* threshold percentage, each recorded M1 and M2 (each entry of the vectors
\* in the object unit) is a number of [0, 1].
C14_MandersInUnitInterval ==
    /\ ImagesMandersDone =>
          InUnitInterval(measurements[M1_name]) /\ InUnitInterval(measurements[M2_name])
    /\ ObjectsMandersDone =>
          \A k \in 1..n_objects :
              InUnitInterval(measurements[M1_name][k])
                  /\ InUnitInterval(measurements[M2_name][k])

(* ------------------------- the Overlap coefficient --------------------- *)
Overlap_name == Feature(F_OVERLAP_FORMAT, first_image_name, second_image_name)

\* C15: in both units, on intensities that are not negative and for every
\* threshold percentage, each recorded Overlap (each entry of the vector in
\* the object unit) is a number of [0, 1].
C15_OverlapInUnitInterval ==
    /\ unit = "images" /\ pc = "done" /\ Len(fi) > 0 /\ flags["overlap"] =>
          InUnitInterval(measurements[Overlap_name])
    /\ unit = "objects" /\ pc = "done" /\ raised = "none" /\ flags["overlap"]
            /\ Len(labels) > 0 =>
          \A k \in 1..n_objects : InUnitInterval(measurements[Overlap_name][k])

(* ---------------------------- identical images ------------------------- *)
One == Frac(1, 1)
\* the whole-image unit has ended on two identical unmasked images
IdenticalImagesDone ==
    /\ unit = "images"
    /\ pc = "done"
    /\ first_pixel_data = second_pixel_data
    /\ first_mask = AllTrue /\ second_mask = AllTrue
    /\ flags = AllButCostes
RWC1_name == Feature(F_RWC_FORMAT, first_image_name, second_image_name)
RWC2_name == Feature(F_RWC_FORMAT, second_image_name, first_image_name)
Slope_name == Feature(F_SLOPE_FORMAT, first_image_name, second_image_name)
\* Overlap, M1, M2, RWC1 and RWC2 are all recorded as 1
ThresholdFamiliesOne ==
    \A name \in {Overlap_name, M1_name, M2_name, RWC1_name, RWC2_name} :
        measurements[name] = One

\* C16: for two identical images, both masks all true, and every threshold
\* percentage, the whole-image unit records Correlation = 1, Slope = 1,
\* Overlap = 1, M1 = M2 = 1 and RWC1 = RWC2 = 1 when the image is not
\* constant; for a constant image that is not zero it records Overlap = M1 =
\* M2 = RWC1 = RWC2 = 1 and Correlation = nan.
C16_IdenticalImagesOne ==
    IdenticalImagesDone =>
        /\ ~Constant(first_pixel_data) =>
              /\ measurements[CorrelationName] = One
              /\ measurements[Slope_name] = One
              /\ ThresholdFamiliesOne
        /\ Constant(first_pixel_data) /\ first_pixel_data[1] > 0 =>
              /\ measurements[CorrelationName] = NaN
              /\ ThresholdFamiliesOne

\* the unit has ended on two identical images that are not constant, at the
\* largest threshold percentage
C16_IdenticalNotConstant ==
    /\ IdenticalImagesDone
    /\ ~Constant(first_pixel_data)
    /\ thr = 99
    /\ measurements[Slope_name] = One

\* C16 as stated: for every pair of identical images the seven values are 1.
C16_IdenticalImagesAlwaysOne ==
    IdenticalImagesDone =>
        /\ measurements[CorrelationName] = One
        /\ measurements[Slope_name] = One
        /\ ThresholdFamiliesOne

(* ------------------------------ the ranks ------------------------------ *)
\* the dense rank: the number of distinct values of v strictly smaller
DenseRank(v) ==
    [j \in 1..Len(v) |->
        Cardinality({x \in {v[m] : m \in 1..Len(v)} : x < v[j]})]
\* R - Di with dense ranks over the whole of f and s, and R = 1 + the largest
DenseWeights(f, s) ==
    LET R == 1 + Max(DenseRank(f) \o DenseRank(s))
    IN  [R |-> R,
         num |-> [j \in 1..Len(f) |-> R - Abs(DenseRank(f)[j] - DenseRank(s)[j])]]
NoKey(v) == [j \in 1..Len(v) |-> 0]
ImagesRWCDone == unit = "images" /\ pc = "done" /\ Len(fi) > 0 /\ flags["rwc"]
ObjectsRWCDone ==
    unit = "objects" /\ pc = "done" /\ raised = "none" /\ flags["rwc"] /\ Len(labels) > 0

\* C17: the rank of a pixel is the number of distinct values strictly smaller
\* than its own ([3, 1, 1, 2] has ranks [2, 0, 0, 1]); the object unit ranks
\* all valid object pixels together, not object by object; R is 1 + the
\* largest rank of either image over that whole population; and the recorded
\* RWC values are the ones these ranks give.
C17_DenseRank ==
    /\ RankIm(<<3, 1, 1, 2>>, <<0, 0, 0, 0>>) = <<2, 0, 0, 1>>
    /\ ImagesRWCDone =>
          LET w == DenseWeights(fi, si)
              t == ImagesThresholds(fi, si, thr)
              wt == Compress(w.num, t.combined_thresh)
          IN  /\ RankIm(fi, NoKey(fi)) = DenseRank(fi)
              /\ RankIm(si, NoKey(si)) = DenseRank(si)
              /\ RankWeights(fi, si, NoKey(fi)) = w
              /\ measurements[RWC1_name] =
                    Div(Sum(Times(t.fi_thresh, wt)), w.R * t.tot_fi_thr)
              /\ measurements[RWC2_name] =
                    Div(Sum(Times(t.si_thresh, wt)), w.R * t.tot_si_thr)
    /\ ObjectsRWCDone =>
          LET w == DenseWeights(first_pixels, second_pixels)
              t == ObjectsThresholds(first_pixels, second_pixels, labels, n_objects, thr)
              wt == Compress(w.num, t.combined_thresh)
          IN  /\ RankIm(first_pixels, labels) = DenseRank(first_pixels)
              /\ RankIm(second_pixels, labels) = DenseRank(second_pixels)
              /\ RankWeights(first_pixels, second_pixels, labels) = w
              /\ AnyTrue(t.combined_thresh) =>
                    \A k \in 1..n_objects :
                        /\ measurements[RWC1_name][k] =
                              Div(LabelSum(Times(t.fi_thresh, wt), t.labels_thresh, k),
                                  w.R * t.tot_fi_thr[k])
                        /\ measurements[RWC2_name][k] =
                              Div(LabelSum(Times(t.si_thresh, wt), t.labels_thresh, k),
                                  w.R * t.tot_si_thr[k])

\* the object unit has ended on two objects where two pixels tie in the first
\* image and the darkest pixel of an object has a rank above 0
C17_TieAcrossObjects ==
    /\ ObjectsRWCDone
    /\ n_objects = 2
    /\ \E j, m \in 1..Len(labels) :
          j # m /\ labels[j] # labels[m] /\ first_pixels[j] = first_pixels[m]
    /\ \E j \in 1..Len(labels) :
          /\ \A m \in 1..Len(labels) :
                labels[m] = labels[j] => first_pixels[j] <= first_pixels[m]
          /\ RankIm(first_pixels, labels)[j] > 0

(* ------------------- a pixel exactly at the thresholds ------------------ *)
ImagesOverlapDone == unit = "images" /\ pc = "done" /\ Len(fi) > 0 /\ flags["overlap"]
ObjectsOverlapDone ==
    unit = "objects" /\ pc = "done" /\ raised = "none" /\ flags["overlap"] /\ Len(labels) > 0
\* v is exactly p percent of mx
AtThr(v, p, mx) == 100 * v = p * mx
\* sum of f * s over the pixels kept, over the root of the sums of squares
OverlapOver(f, s, keep) ==
    LET fk == Compress(f, keep)
        sk == Compress(s, keep)
    IN  DivSqrt(Sum(Times(fk, sk)), Sum(Times(fk, fk)) * Sum(Times(sk, sk)))
\* sample j of the object unit has both intensities at its own object's thresholds
AtOwnThresholds(j) ==
    /\ AtThr(first_pixels[j], thr, MaxOf(first_pixels, labels[j]))
    /\ AtThr(second_pixels[j], thr, MaxOf(second_pixels, labels[j]))

\* C18: a pixel whose two intensities equal the thresholds is not in
\* combined_thresh in the whole-image unit (strict >, thresholds from the
\* maxima of the whole sample) and is in combined_thresh in the object unit
\* (>=, thresholds from the maxima of the pixel's own object); the recorded
\* Overlap is the one of the pixels kept that way.
C18_EqualityAtThreshold ==
    /\ ImagesOverlapDone =>
          LET t == ImagesThresholds(fi, si, thr)
              keep == [j \in 1..Len(fi) |->
                          /\ 100 * fi[j] > thr * Max(fi)
                          /\ 100 * si[j] > thr * Max(si)]
          IN  /\ \A j \in 1..Len(fi) :
                    AtThr(fi[j], thr, Max(fi)) /\ AtThr(si[j], thr, Max(si))
                        => ~t.combined_thresh[j]
              /\ t.combined_thresh = keep
              /\ measurements[Overlap_name] = OverlapOver(fi, si, keep)
    /\ ObjectsOverlapDone =>
          LET t == ObjectsThresholds(first_pixels, second_pixels, labels, n_objects, thr)
              keep == [j \in 1..Len(labels) |->
                          /\ 100 * first_pixels[j] >= thr * MaxOf(first_pixels, labels[j])
                          /\ 100 * second_pixels[j] >= thr * MaxOf(second_pixels, labels[j])]
          IN  /\ \A j \in 1..Len(labels) : AtOwnThresholds(j) => t.combined_thresh[j]
              /\ t.combined_thresh = keep
              /\ \A k \in 1..n_objects : AnyTrue(keep) /\ AnyTrue(OfObject(k)) =>
                    measurements[Overlap_name][k] =
                        OverlapOver(first_pixels, second_pixels,
                                    [j \in 1..Len(labels) |-> keep[j] /\ labels[j] = k])

\* the object unit has ended with a pixel of positive intensities exactly at
\* its own object's thresholds, and another object whose maximum is below the
\* maximum of the whole sample
C18_PixelAtOwnThresholds ==
    /\ ObjectsOverlapDone
    /\ \E j \in 1..Len(labels) :
          first_pixels[j] > 0 /\ second_pixels[j] > 0 /\ AtOwnThresholds(j)
    /\ \E k \in 1..n_objects :
          AnyTrue(OfObject(k)) /\ MaxOf(first_pixels, k) < Max(first_pixels)

(* ---------------- the Costes thresholds of the object unit -------------- *)
\* the level of the pass after k passes that did not break
LevelAt(k) == Level(Levels - k * StepWhole, k * StepDeficit)
\* the passes the loop test allows: 0 .. LastPass
LastPass == CHOOSE k \in 0..Levels : LoopTest(LevelAt(k)) /\ ~LoopTest(LevelAt(k + 1))
\* the thresholds a search over the sample (f, s) ends with: those of its
\* first pass that breaks, or of the last pass if none does
AcceptedThresholds(f, s) ==
    LET rg == CostesRegression(f, s)
        breaks == {k \in 0..LastPass : CostesBody(f, s, rg, LevelAt(k)).brk}
        last == IF breaks = {} THEN LastPass
                ELSE CHOOSE k \in breaks : \A m \in breaks : k <= m
    IN  <<LevelAt(last), ThrSi(rg, LevelAt(last))>>
\* the sample of the pair of images, whatever the objects
ImageSample(data) ==
    Compress(data, [j \in 1..Len(data) |->
                      /\ first_mask[j] /\ second_mask[j]
                      /\ first_pixel_data[j] # PixelNaN
                      /\ second_pixel_data[j] # PixelNaN])
CostesDone == pc = "done" /\ raised = "none" /\ flags["costes"] /\ values.C1 # NoValue
C1_name == Feature(F_COSTES_FORMAT, first_image_name, second_image_name)
C2_name == Feature(F_COSTES_FORMAT, second_image_name, first_image_name)

\* C19: the Costes thresholds of the object unit are those of a search over
\* the sample of the whole pair of images, the same the whole-image unit
\* accepts for the two images, whatever the label map; and C1 and C2 of every
\* object are computed with that one pair of thresholds.
C19_ThresholdsOfWholeImage ==
    CostesDone =>
        /\ fi = ImageSample(first_pixel_data)
        /\ si = ImageSample(second_pixel_data)
        /\ <<Thr_fi_c, Thr_si_c>> = AcceptedThresholds(ImageSample(first_pixel_data),
                                                       ImageSample(second_pixel_data))
        /\ unit = "objects" =>
              LET fa == [j \in 1..Len(labels) |-> GreyGt(first_pixels[j], Thr_fi_c)]
                  sa == [j \in 1..Len(labels) |-> SiGt(second_pixels[j], Thr_si_c)]
                  both == [j \in 1..Len(labels) |-> fa[j] /\ sa[j]]
              IN  \A k \in 1..n_objects :
                    /\ measurements[C1_name][k] =
                          IF AnyTrue(both)
                          THEN Div(SumWhere(first_pixels,
                                       [j \in 1..Len(labels) |-> both[j] /\ labels[j] = k]),
                                   SumWhere(first_pixels,
                                       [j \in 1..Len(labels) |->
                                           labels[j] = k /\ GreyGe(first_pixels[j], Thr_fi_c)]))
                          ELSE Zero
                    /\ measurements[C2_name][k] =
                          IF AnyTrue(both)
                          THEN Div(SumWhere(second_pixels,
                                       [j \in 1..Len(labels) |-> both[j] /\ labels[j] = k]),
                                   SumWhere(second_pixels,
                                       [j \in 1..Len(labels) |->
                                           labels[j] = k /\ SiGe(second_pixels[j], Thr_si_c)]))
                          ELSE Zero

\* the object unit has ended on two objects, after a search of several
\* passes, with a pixel of one object above both thresholds and a pixel of
\* the other object not above the first
C19_TwoObjectsOneThreshold ==
    /\ CostesDone
    /\ unit = "objects"
    /\ n_objects = 2
    /\ iterations > 1
    /\ \E j, m \in 1..Len(labels) :
          /\ labels[j] # labels[m]
          /\ GreyGt(first_pixels[j], Thr_fi_c) /\ SiGt(second_pixels[j], Thr_si_c)
          /\ ~GreyGt(first_pixels[m], Thr_fi_c)

(* ---------------------------- the rows returned ------------------------ *)
Stats == {"Mean", "Median", "Min", "Max"}
\* the names of the rows of one record: one row in the whole-image unit, the
\* four statistics of the vector in the object unit
RecordNames(whole, perObject) ==
    IF unit = "images" THEN {whole} ELSE {st \o " " \o perObject : st \in Stats}
CorrelationRows == RecordNames("Correlation", "Correlation coeff")
OverlapRows == RecordNames("Overlap Coefficient", "Overlap coeff")
FamilyRows(fam) ==
    CASE fam = "manders" -> RecordNames("Manders Coefficient", "Manders coeff")
      [] fam = "rwc" -> RecordNames("RWC Coefficient", "RWC coeff")
      [] fam = "costes" -> RecordNames("Manders Coefficient (Costes)",
                                       "Manders coeff (Costes)")
RowCount(first, second, measurement) ==
    Cardinality({k \in 1..Len(result) :
                    /\ result[k].first = first
                    /\ result[k].second = second
                    /\ result[k].measurement = measurement})
\* each row of the record is returned once under the ordering (first, second)
Reported(first, second, names) == \A m \in names : RowCount(first, second, m) = 1
Absent(first, second, names) == \A m \in names : RowCount(first, second, m) = 0
\* rows under (first, second) that belong to none of Correlation, Slope,
\* Overlap, Manders, RWC and Costes
OtherRows(first, second) ==
    {k \in 1..Len(result) :
        /\ result[k].first = first
        /\ result[k].second = second
        /\ result[k].measurement \notin
              CorrelationRows \cup OverlapRows \cup {"Slope"}
              \cup FamilyRows("manders") \cup FamilyRows("rwc") \cup FamilyRows("costes")}
RowsDone == pc = "done" /\ raised = "none"
\* the unit has computed the families: the pair has a valid pixel and, in the
\* object unit, there is an object
Computed ==
    /\ AnyTrue(PairMask(first_pixel_data, second_pixel_data, first_mask, second_mask))
    /\ unit = "objects" => n_objects > 0
K1_name == Feature(F_K_FORMAT, first_image_name, second_image_name)
K2_name == Feature(F_K_FORMAT, second_image_name, first_image_name)

AllNames ==
    {CorrelationName, Overlap_name, K1_name, K2_name, M1_name, M2_name,
     RWC1_name, RWC2_name, C1_name, C2_name}

\* C21: when do_all is Yes, a unit that ends without an exception has recorded
\* the measurements of all five families (and the slope, in the whole-image
\* unit), whatever the five flags.
C21_RunAllRecordsAll ==
    RowsDone /\ do_all /\ (unit = "objects" => n_objects > 0) =>
        /\ AllNames \subseteq DOMAIN measurements
        /\ unit = "images" => Slope_name \in DOMAIN measurements

(* ------------------------------ the run -------------------------------- *)
\* C22: for different image names (and different object names), every
\* measurement key (IMAGE or object name, feature name) is written at most once
\* in a run.
C22_KeyWrittenOnce == \A k \in DOMAIN store : store[k] <= 1

(* ------------------------- the inputs are read only -------------------- *)
\* the variables a family assigns
FieldsOf(fam) ==
    CASE fam = "corr_and_slope" -> IF unit = "images" THEN {"corr", "slope"} ELSE {"corr"}
      [] fam = "manders" -> {"M1", "M2"}
      [] fam = "rwc" -> {"RWC1", "RWC2"}
      [] fam = "overlap" -> {"overlap", "K1", "K2"}
\* the values of the unit when every family is enabled
WithEveryFamily ==
    IF unit = "images"
    THEN ImagesFamilies(fi, si, thr, AllOn)
    ELSE ObjectsFamilies(first_pixels, second_pixels, labels, n_objects, thr, AllOn)
FamiliesDone ==
    RowsDone /\ Computed /\ (unit = "objects" => Len(labels) > 0)

IndexOfImage(name) ==
    CHOOSE k \in 1..Len(image_groups) : image_groups[k].image_name = name
\* 0 for the whole-image unit, else the position of the object group
IndexOfObject(name) ==
    IF name = IMAGE THEN 0
    ELSE CHOOSE k \in 1..Len(object_groups) : object_groups[k].object_name = name
\* (a1, a2) comes before (b1, b2): by the first index, then by the second
Earlier(a1, a2, b1, b2) == a1 < b1 \/ (a1 = b1 /\ a2 < b2)
UnitsPerPair ==
    (IF images_or_objects # M_OBJECTS THEN 1 ELSE 0)
    + (IF images_or_objects # M_IMAGES THEN Len(object_groups) ELSE 0)

\* C24: get_image_pairs yields the n * (n - 1) / 2 pairs (group i, group j),
\* i < j, each once, ordered by i and then j, never a group with itself nor a
\* pair in both orderings; run calls the units pair by pair in that order, the
\* whole-image unit of a pair before its object units, those in the order of
\* object_groups, each unit once.
C24_PairsInOrder ==
    LET P == get_image_pairs
        n == Len(image_groups)
        I(k) == IndexOfImage(P[k][1])
        J(k) == IndexOfImage(P[k][2])
    IN  /\ 2 * Len(P) = n * (n - 1)
        /\ \A k \in 1..Len(P) : I(k) < J(k)
        /\ \A k, l \in 1..Len(P) : k < l => Earlier(I(k), J(k), I(l), J(l))
        /\ \A x, y \in 1..n : x < y =>
              Cardinality({k \in 1..Len(P) :
                  P[k] = <<image_groups[x].image_name, image_groups[y].image_name>>}) = 1
        /\ \A k, l \in 1..Len(P) : P[k][1] # P[k][2] /\ P[k] # <<P[l][2], P[l][1]>>
        /\ Len(calls) <= Len(P) * UnitsPerPair
        /\ \A x \in 1..Len(calls) :
              /\ \E k \in 1..Len(P) : P[k] = <<calls[x].first, calls[x].second>>
              /\ calls[x].objects = IMAGE => images_or_objects # M_OBJECTS
              /\ calls[x].objects # IMAGE => images_or_objects # M_IMAGES
        /\ \A x, y \in 1..Len(calls) : x < y =>
              LET a == calls[x]
                  b == calls[y]
              IN  \/ Earlier(IndexOfImage(a.first), IndexOfImage(a.second),
                             IndexOfImage(b.first), IndexOfImage(b.second))
                  \/ /\ a.first = b.first /\ a.second = b.second
                     /\ IndexOfObject(a.objects) < IndexOfObject(b.objects)

\* run has called every unit of three images and two object sets in mode Both
C24_RunComplete ==
    /\ Len(image_groups) = 3
    /\ Len(object_groups) = 2
    /\ images_or_objects = M_IMAGES_AND_OBJECTS
    /\ Len(calls) = 9

(* --------------------------- prepare_settings -------------------------- *)
\* the step is a call of prepare_settings
PrepareStep == call'.method = "prepare_settings"

\* C25: a call of prepare_settings with image_count >= 2 leaves image_count
\* image groups and object_count object groups, the groups of the old lists
\* that fit still in their places and new groups after them; with
\* image_count < 2 it raises ValueError and leaves both lists as they were.
C25_PrepareSettings ==
    [][PrepareStep =>
        LET image_count == int(call'.args[1])
            object_count == int(call'.args[2])
        IN  IF image_count < 2
            THEN /\ raised' = "ValueError"
                 /\ image_groups' = image_groups
                 /\ object_groups' = object_groups
            ELSE /\ raised' = "none"
                 /\ Len(image_groups') = image_count
                 /\ Len(object_groups') = object_count
                 /\ \A k \in 1..Min2(image_count, Len(image_groups)) :
                       image_groups'[k] = image_groups[k]
                 /\ \A k \in 1..Min2(object_count, Len(object_groups)) :
                       object_groups'[k] = object_groups[k]
                 /\ \A k \in (Len(image_groups) + 1)..image_count :
                       \A m \in 1..Len(image_groups) :
                           image_groups'[k].id # image_groups[m].id
                 /\ \A k \in (Len(object_groups) + 1)..object_count :
                       \A m \in 1..Len(object_groups) :
                           object_groups'[k].id # object_groups[m].id]_vars

\* prepare_settings has left more image groups than create_settings makes
\* and fewer object groups
C25_PreparedThreeAndNone ==
    /\ call.method = "prepare_settings"
    /\ raised = "none"
    /\ Len(image_groups) = 3
    /\ Len(object_groups) = 0

(* ------------------------- the groups that stay ------------------------ *)
\* C28: whatever buttons are pressed and whatever prepare_settings loads,
\* there are at least two image groups, the first two have no remover, and
\* get_image_pairs yields at least one pair.
C28_TwoFixedImages ==
    /\ Len(image_groups) >= 2
    /\ ~image_groups[1].can_delete
    /\ ~image_groups[2].can_delete
    /\ Len(get_image_pairs) >= 1

\* an image group has been removed and only the two fixed ones are left
C28_RemovedDownToTwo ==
    /\ call.method = "remove_image"
    /\ Len(image_groups) = 2

\* C29: whatever buttons are pressed and whatever prepare_settings loads,
\* there is an object group, the first one has no remover, and help_settings
\* does not fail.
C29_FixedObject ==
    /\ Len(object_groups) >= 1
    /\ ~object_groups[1].can_delete
    /\ raised # "IndexError"

(* --------------------------- upgrade_settings -------------------------- *)
\* the place of the threshold among the saved settings
ThrPlace(image_count, object_count) ==
    CHOOSE k \in 1..Len(SettingSlots(image_count, object_count)) :
        SettingSlots(image_count, object_count)[k] = "thr"

\* C26: upgrade_settings of a revision-2 list returns the list with one
\* "15.0" put in at index image_count + 2, the place where settings() saves
\* thr, everything else in order, and revision 3; a revision-3 list comes
\* back as it is; from_matlab or a revision below 2 raises
\* NotImplementedError and returns nothing.
C26_UpgradeSettings ==
    call.method = "upgrade_settings" =>
        LET setting_values == call.args[1]
            variable_revision_number == call.args[2]
            from_matlab == call.args[3]
            image_count == int(setting_values[1])
            object_count == int(setting_values[2])
        IN  IF from_matlab \/ variable_revision_number < 2
            THEN raised = "NotImplementedError" /\ returned = << >>
            ELSE /\ raised = "none"
                 /\ returned[3] = from_matlab
                 /\ IF variable_revision_number = 2
                    THEN /\ Len(returned[1]) = Len(setting_values) + 1
                         /\ ThrPlace(image_count, object_count) = image_count + 3
                         /\ returned[1][image_count + 3] = "15.0"
                         /\ Without(returned[1], image_count + 3) = setting_values
                         /\ returned[2] = 3
                    ELSE /\ returned[1] = setting_values
                         /\ returned[2] = variable_revision_number

\* a saved revision-2 pipeline of three images has been upgraded
C26_UpgradedFromTwo ==
    /\ call.method = "upgrade_settings"
    /\ call.args[2] = 2
    /\ ~call.args[3]
    /\ call.args[1][1] = "3"
    /\ Len(call.args[1]) = Len(SettingSlots(3, 1)) - 1
    /\ raised = "none"
    /\ returned[1][6] = "15.0"
    /\ returned[2] = 3

(* ----------------------- the columns and the unit ---------------------- *)
\* the object name a unit writes its measurements under
ObjectsOfUnit == IF unit = "images" THEN IMAGE ELSE object_name
\* the names a finished unit has written
NamesWritten == {<<ObjectsOfUnit, f>> : f \in DOMAIN measurements}
\* the names get_measurement_columns declares
NamesDeclared == {get_measurement_columns[k] : k \in 1..Len(get_measurement_columns)}

\* C27: when a unit has ended, whatever the flags, the masks and the number
\* of objects, it has written exactly the names get_measurement_columns
\* declares for it, and every value written had been assigned.
C27_WritesDeclaredColumns ==
    pc = "done" =>
        /\ NamesWritten = NamesDeclared
        /\ \A f \in DOMAIN measurements : measurements[f] # NoValue

\* the same of the units that end without an exception
C27_WritesDeclaredUnlessRaised ==
    (pc = "done" /\ raised = "none") =>
        /\ NamesWritten = NamesDeclared
        /\ \A f \in DOMAIN measurements : measurements[f] # NoValue

(* --------------------------- the RWC weights --------------------------- *)
\* x <= y for two quotients with positive denominators
QuotientLeq(x, y) == x.t = "num" /\ y.t = "num" /\ x.n * y.d <= y.n * x.d

\* C30: in the whole-image unit every Di is at most R - 1 and every weight
\* (R - Di)/R lies between 1/R and 1, being 1 exactly where the two ranks of
\* the pixel are equal; and where the Manders denominators are positive,
\* RWC1 <= M1 and RWC2 <= M2.
C30_WeightsInUnitInterval ==
    ImagesRWCDone =>
        LET w == RankWeights(fi, si, NoKey(fi))
            Rank_im1 == RankIm(fi, NoKey(fi))
            Rank_im2 == RankIm(si, NoKey(si))
            t == ImagesThresholds(fi, si, thr)
        IN  /\ \A j \in 1..Len(fi) :
                  /\ Abs(Rank_im1[j] - Rank_im2[j]) <= w.R - 1
                  /\ 1 <= w.num[j]
                  /\ w.num[j] <= w.R
                  /\ (w.num[j] = w.R) <=> (Rank_im1[j] = Rank_im2[j])
            /\ t.tot_fi_thr > 0 =>
                  QuotientLeq(measurements[RWC1_name], measurements[M1_name])
            /\ t.tot_si_thr > 0 =>
                  QuotientLeq(measurements[RWC2_name], measurements[M2_name])

\* a pixel above both thresholds whose ranks differ: RWC1 is below M1
C30_BelowManders ==
    /\ ImagesRWCDone
    /\ ImagesThresholds(fi, si, thr).tot_fi_thr > 0
    /\ \E j \in 1..Len(fi) :
          RankWeights(fi, si, NoKey(fi)).num[j] < RankWeights(fi, si, NoKey(fi)).R
    /\ QuotientLeq(measurements[RWC1_name], measurements[M1_name])
    /\ measurements[RWC1_name] # measurements[M1_name]

====
